---- MODULE Spec2Model ----
(***************************************************************************)
(* Graph State & History Engine of the diagram editor: the Store           *)
(* (src/src/core/State.ts), the SerializationService                       *)
(* (src/unnamed/part_000), the HistoryManager (src/src/services/index.ts)  *)
(* the wiring of the three in DAGWidget (src/src/core/Widget.ts) and the   *)
(* command and query facade built on them (src/src/core/API.ts).           *)
(*                                                                         *)
(* JavaScript values are modelled as follows.                              *)
(*  - An optional value (undefined / null / absent) is a sequence of       *)
(*    length 0 (None) or 1 (Some(v)).                                      *)
(*  - An object used as an id-keyed map (Record<string, T>) is the         *)
(*    sequence of its values in key insertion order; every value carries   *)
(*    its key in the field id.  Assigning an existing key keeps its place, *)
(*    assigning a new key appends, delete removes.                         *)
(*  - A free-form map (data, style, label) is the sequence of its          *)
(*    <<key, value>> pairs in insertion order, so that JSON.stringify      *)
(*    equality (which is sensitive to key order) is equality of sequences. *)
(*  - The position of a node is the one object that is written in place    *)
(*    (Store.moveNode) while other objects may hold a reference to it: the *)
(*    Node constructor keeps the position object it is given, and          *)
(*    deserializeNodes gives it the position object of the snapshot record,*)
(*    which applyPatch and applyInversePatch may have taken by reference   *)
(*    from a delta.  A node position therefore carries, besides x and y,   *)
(*    the identity ref of the object; a write in place reaches every       *)
(*    holder of the same object.  Every other value is a plain copy.       *)
(***************************************************************************)
EXTENDS Integers, Sequences, FiniteSets, TLC

(***************************************************************************)
(* Bounds of the model.                                                    *)
(***************************************************************************)
\* maxDepth handed to the HistoryManager constructor
MaxDepth == 1
\* number of calls (store commands and history operations) in one behaviour
MaxOps == 6
\* largest x coordinate a node is moved to
MaxCoord == 1
\* the most nodes and the most notes that a caller of the command facade keeps in the diagram
MaxNodes == 2
MaxNotes == 1
\* number of calls in one behaviour of the store on its own
MaxStoreOps == 4
\* number of calls in one behaviour of the command facade on a diagram loaded by the host
MaxLoadedOps == 4
\* number of calls of deserialize and validateState in one behaviour on the documents
MaxDocOps == 2
\* calls in a behaviour of the facade with the input layer
MaxInputOps == 4
\* calls of sortNodes and traverseDiagram in one behaviour on the graphs
MaxTraverseOps == 2

(***************************************************************************)
(* Optional values.                                                        *)
(***************************************************************************)
None == <<>>
Some(v) == <<v>>
IsSome(o) == Len(o) > 0
The(o) == o[1]

(***************************************************************************)
(* Id-keyed maps as insertion-ordered sequences of records with field id.  *)
(***************************************************************************)
Keys(m) == {m[i].id : i \in DOMAIN m}
HasKey(m, id) == \E i \in DOMAIN m : m[i].id = id
IndexOf(m, id) == CHOOSE i \in DOMAIN m : m[i].id = id /\ \A j \in 1..(i - 1) : m[j].id # id
Get(m, id) == m[IndexOf(m, id)]
MapPut(m, rec) ==
    IF HasKey(m, rec.id) THEN [m EXCEPT ![IndexOf(m, rec.id)] = rec] ELSE Append(m, rec)
MapDelete(m, id) == SelectSeq(m, LAMBDA r : r.id # id)
RemoveAt(s, i) == SubSeq(s, 1, i - 1) \o SubSeq(s, i + 1, Len(s))
Values(m) == {m[i] : i \in DOMAIN m}

RECURSIVE BuildMap(_, _)
BuildMap(recs, acc) ==
    IF recs = <<>> THEN acc ELSE BuildMap(Tail(recs), MapPut(acc, Head(recs)))

(***************************************************************************)
(* Free-form maps: { ...a, ...b }                                          *)
(***************************************************************************)
PairKeys(a) == {a[i][1] : i \in DOMAIN a}
RECURSIVE Spread(_, _)
Spread(a, b) ==
    IF b = <<>> THEN a
    ELSE LET k == Head(b)[1]
             a2 == IF k \in PairKeys(a)
                   THEN [i \in DOMAIN a |-> IF a[i][1] = k THEN Head(b) ELSE a[i]]
                   ELSE Append(a, Head(b))
         IN Spread(a2, Tail(b))

(***************************************************************************)
(* Entities.                                                               *)
(***************************************************************************)
NodeIds == {"n1", "n2"}
ConnIds == {"c1"}
NoteIds == {"t1"}

\* plugin types present in the Registry
RegisteredNodeTypes == {"start", "task"}
RegisteredConnectionTypes == {"default"}

Position(x, y) == [x |-> x, y |-> y]
\* a node position: the value and the identity of the object that holds it
PositionObject(x, y, ref) == [x |-> x, y |-> y, ref |-> ref]
\* { ...position }: a new object with the same value
CopyPosition(position, ref) == PositionObject(position.x, position.y, ref)
Positions == {Position(x, 0) : x \in 0..MaxCoord}
Transforms == {[k |-> k, x |-> 0, y |-> 0] : k \in 1..2}

\* new Handler(id, type, definition, offset, label, role, direction)
Handler(id, type, flow, offset, direction) ==
    [id |-> id, type |-> type, flow |-> flow, role |-> "", offset |-> offset,
     direction |-> direction, label |-> ""]

\* new Node(id, type, definition, position, label, data, handlers)
Node(id, type, position, label, data, handlers) ==
    [id |-> id, type |-> type, position |-> position, label |-> label, data |-> data,
     handlers |-> handlers, note |-> "", style |-> <<>>]

DefaultLinkStyle == << <<"stroke", "#666666">>, <<"strokeWidth", "2">> >>

\* new Connection(id, type, definition, sourceHandlerId, targetHandlerId, pathType, data)
Connection(id, type, sourceHandlerId, targetHandlerId, pathType, data) ==
    [id |-> id, type |-> type, sourceHandlerId |-> sourceHandlerId,
     targetHandlerId |-> targetHandlerId, pathType |-> pathType, data |-> data,
     style |-> DefaultLinkStyle, label |-> None]

\* Connection.update(changes)
ConnectionUpdate(link, changes) ==
    [link EXCEPT
        !.label = IF IsSome(changes.label) THEN changes.label ELSE @,
        !.style = IF IsSome(changes.style) THEN Spread(@, The(changes.style)) ELSE @,
        !.data = IF IsSome(changes.data) THEN Spread(@, The(changes.data)) ELSE @,
        !.pathType = IF IsSome(changes.pathType) THEN The(changes.pathType) ELSE @]

\* new Note(id, position, text, dimensions)
Note(id, position, text, dimensions) ==
    [id |-> id, position |-> position, text |-> text, dimensions |-> dimensions]

DefaultNoteDimensions == [width |-> "default", height |-> "default"]

(***************************************************************************)
(* SerializationService (src/unnamed/part_000).  metadata.createdAt is a   *)
(* wall-clock stamp that no operation reads; it is left out.               *)
(***************************************************************************)
SchemaVersion == "1.0.0"

serializeHandler(handler) ==
    [id |-> handler.id, type |-> handler.type, label |-> handler.label, flow |-> handler.flow,
     presentation |-> [offset |-> handler.offset, direction |-> handler.direction]]

serializeHandlers(handlers) ==
    BuildMap([i \in DOMAIN handlers |-> serializeHandler(handlers[i])], <<>>)

\* ref names the position objects that this serialization creates
serializeNode(node, ref) ==
    [id |-> node.id, type |-> node.type, label |-> node.label, note |-> node.note,
     data |-> node.data,
     presentation |-> [position |-> CopyPosition(node.position, ref), style |-> node.style],
     handles |-> serializeHandlers(node.handlers)]

serializeNodes(ns, ref) == BuildMap([i \in DOMAIN ns |-> serializeNode(ns[i], ref)], <<>>)

serializeConnection(conn) ==
    [id |-> conn.id, type |-> conn.type, sourceHandlerId |-> conn.sourceHandlerId,
     targetHandlerId |-> conn.targetHandlerId, pathType |-> conn.pathType,
     label |-> conn.label, style |-> conn.style, data |-> conn.data]

serializeConnections(ls) == BuildMap([i \in DOMAIN ls |-> serializeConnection(ls[i])], <<>>)

serializeNote(note) ==
    [id |-> note.id, text |-> note.text, position |-> note.position,
     dimensions |-> note.dimensions]

serializeNotes(ts) == BuildMap([i \in DOMAIN ts |-> serializeNote(ts[i])], <<>>)

\* serialize() of a store holding the given collections
serialize(ns, ls, ts, tr, ref) ==
    [metadata |-> [version |-> SchemaVersion, viewport |-> tr],
     nodes |-> serializeNodes(ns, ref),
     connections |-> serializeConnections(ls),
     notes |-> serializeNotes(ts)]

\* restoreHandlerIds(node, savedHandlers): the i-th handler of a type takes the id (and the
\* label, when it is not empty) of the i-th saved handler of that type
restoreHandlerIds(handlers, savedHandlers) ==
    [i \in DOMAIN handlers |->
        LET typeIndex == Cardinality({j \in 1..(i - 1) : handlers[j].type = handlers[i].type})
            savedHandlersOfType == SelectSeq(savedHandlers, LAMBDA h : h.type = handlers[i].type)
        IN IF typeIndex + 1 <= Len(savedHandlersOfType)
           THEN LET savedHandler == savedHandlersOfType[typeIndex + 1]
                IN [handlers[i] EXCEPT
                       !.id = savedHandler.id,
                       !.label = IF savedHandler.label # "" THEN savedHandler.label ELSE @]
           ELSE handlers[i]]

\* the body of the forEach of deserializeNodes for one registered node: the Node constructor
\* is called without its handlers argument, which defaults to [], and keeps the position
\* object of the record
deserializeNode(nodeData) ==
    LET node == Node(nodeData.id, nodeData.type, nodeData.presentation.position,
                     nodeData.label, nodeData.data, <<>>)
    IN [node EXCEPT !.note = nodeData.note,
                    !.style = nodeData.presentation.style,
                    !.handlers = restoreHandlerIds(node.handlers, nodeData.handles)]

\* a node phase that builds every node, whatever its type
deserializeNodesUnchecked(nodesData) ==
    [i \in DOMAIN nodesData |-> deserializeNode(nodesData[i])]

deserializeNodes(nodesData) ==
    LET known == SelectSeq(nodesData, LAMBDA d : d.type \in RegisteredNodeTypes)
    IN [i \in DOMAIN known |-> deserializeNode(known[i])]

\* a handler test that finds every handler
anyHandlerExists(handlerId, ns) == TRUE

handlerExists(handlerId, ns) ==
    \E i \in DOMAIN ns : \E j \in DOMAIN ns[i].handlers : ns[i].handlers[j].id = handlerId

deserializeConnection(connData) ==
    [Connection(connData.id, connData.type, connData.sourceHandlerId,
                connData.targetHandlerId, connData.pathType, <<>>)
        EXCEPT !.style = connData.style, !.label = connData.label, !.data = connData.data]

deserializeConnections(connectionsData, ns) ==
    LET valid == SelectSeq(connectionsData, LAMBDA d :
                    /\ d.type \in RegisteredConnectionTypes
                    /\ handlerExists(d.sourceHandlerId, ns)
                    /\ handlerExists(d.targetHandlerId, ns))
    IN [i \in DOMAIN valid |-> deserializeConnection(valid[i])]

deserializeNotes(notesData) ==
    [i \in DOMAIN notesData |->
        Note(notesData[i].id, notesData[i].position, notesData[i].text,
             notesData[i].dimensions)]

\* deserialize(data): the GraphState handed to Store.setState
deserialize(data) ==
    LET ns == deserializeNodes(data.nodes)
    IN [nodes |-> ns,
        links |-> deserializeConnections(data.connections, ns),
        notes |-> deserializeNotes(data.notes),
        transform |-> data.metadata.viewport]

(***************************************************************************)
(* HistoryManager (src/src/services/index.ts): the pure part.              *)
(* A StateDelta is [nodes, connections, viewport]: nodes and connections   *)
(* are id-keyed maps of [id, old, new] with optional old and new, viewport *)
(* is an optional [old, new].                                              *)
(***************************************************************************)
\* a clone that loses the nodes
cloneWithoutNodes(state, ref) == [state EXCEPT !.nodes = <<>>]

\* deepClone of a serialized state: every value is copied; ref names the position objects
\* of the copy
deepClone(state, ref) ==
    [state EXCEPT !.nodes = [i \in DOMAIN @ |->
        [@[i] EXCEPT !.presentation.position = CopyPosition(@, ref)]]]

\* JSON.stringify of a serialized handler, node, connection and transform: the values in the
\* order in which the serializer wrote the keys; a key holding undefined is left out
stringifyHandler(h) ==
    <<h.id, h.type, h.label, h.flow, h.presentation.offset.x, h.presentation.offset.y,
      h.presentation.direction>>

stringifyNode(n) ==
    <<n.id, n.type, n.label, n.note, n.data, n.presentation.position.x,
      n.presentation.position.y, n.presentation.style,
      [i \in DOMAIN n.handles |-> stringifyHandler(n.handles[i])]>>

stringifyConnection(c) ==
    <<c.id, c.type, c.sourceHandlerId, c.targetHandlerId, c.pathType>>
        \o (IF IsSome(c.label) THEN <<The(c.label)>> ELSE <<>>)
        \o <<c.style, c.data>>

stringifyTransform(t) == <<t.k, t.x, t.y>>

\* the ids of new Set([...Object.keys(old), ...Object.keys(new)]) in iteration order
AllIds(oldMap, newMap) ==
    [i \in DOMAIN oldMap |-> oldMap[i].id]
        \o [i \in DOMAIN SelectSeq(newMap, LAMBDA r : ~HasKey(oldMap, r.id)) |->
                SelectSeq(newMap, LAMBDA r : ~HasKey(oldMap, r.id))[i].id]

\* the entries that one of the two forEach loops of diff writes; strOf is JSON.stringify
RECURSIVE DiffEntries(_, _, _, _, _)
DiffEntries(ids, oldMap, newMap, isNode, acc) ==
    IF ids = <<>> THEN acc
    ELSE LET id == Head(ids)
             inOld == HasKey(oldMap, id)
             inNew == HasKey(newMap, id)
             same == IF isNode
                     THEN stringifyNode(Get(oldMap, id)) = stringifyNode(Get(newMap, id))
                     ELSE stringifyConnection(Get(oldMap, id))
                              = stringifyConnection(Get(newMap, id))
             entry == IF ~inOld /\ inNew
                         THEN Some([id |-> id, old |-> None, new |-> Some(Get(newMap, id))])
                      ELSE IF inOld /\ ~inNew
                         THEN Some([id |-> id, old |-> Some(Get(oldMap, id)), new |-> None])
                      ELSE IF inOld /\ inNew /\ ~same
                         THEN Some([id |-> id, old |-> Some(Get(oldMap, id)),
                                    new |-> Some(Get(newMap, id))])
                      ELSE None
         IN DiffEntries(Tail(ids), oldMap, newMap, isNode,
                        IF IsSome(entry) THEN MapPut(acc, The(entry)) ELSE acc)

diff(oldState, newState) ==
    [nodes |-> DiffEntries(AllIds(oldState.nodes, newState.nodes),
                           oldState.nodes, newState.nodes, TRUE, <<>>),
     connections |-> DiffEntries(AllIds(oldState.connections, newState.connections),
                                 oldState.connections, newState.connections, FALSE, <<>>),
     viewport |-> IF stringifyTransform(oldState.metadata.viewport)
                        # stringifyTransform(newState.metadata.viewport)
                  THEN Some([old |-> Some(oldState.metadata.viewport),
                             new |-> Some(newState.metadata.viewport)])
                  ELSE None]

\* the forEach of applyPatch over the entries of delta.nodes or delta.connections
RECURSIVE PatchEntries(_, _)
PatchEntries(map, changes) ==
    IF changes = <<>> THEN map
    ELSE LET change == Head(changes)
         IN PatchEntries(
                IF IsSome(change.new) THEN MapPut(map, The(change.new))
                ELSE IF IsSome(change.old) /\ ~IsSome(change.new) THEN MapDelete(map, change.id)
                ELSE map,
                Tail(changes))

applyPatch(state, delta, ref) ==
    LET newState == deepClone(state, ref)
    IN [newState EXCEPT
           !.nodes = PatchEntries(@, delta.nodes),
           !.connections = PatchEntries(@, delta.connections),
           !.metadata.viewport =
               IF IsSome(delta.viewport) /\ IsSome(The(delta.viewport).new)
               THEN The(The(delta.viewport).new) ELSE @]

\* the forEach of applyInversePatch over the entries of delta.nodes or delta.connections
RECURSIVE InversePatchEntries(_, _)
InversePatchEntries(map, changes) ==
    IF changes = <<>> THEN map
    ELSE LET change == Head(changes)
         IN InversePatchEntries(
                IF IsSome(change.old) THEN MapPut(map, The(change.old))
                ELSE IF ~IsSome(change.old) /\ IsSome(change.new) THEN MapDelete(map, change.id)
                ELSE map,
                Tail(changes))

\* an inverse patch that ignores the delta
ignorePatch(state, delta, ref) == deepClone(state, ref)

applyInversePatch(state, delta, ref) ==
    LET newState == deepClone(state, ref)
    IN [newState EXCEPT
           !.nodes = InversePatchEntries(@, delta.nodes),
           !.connections = InversePatchEntries(@, delta.connections),
           !.metadata.viewport =
               IF IsSome(delta.viewport) /\ IsSome(The(delta.viewport).old)
               THEN The(The(delta.viewport).old) ELSE @]

\* a save() that records every diff
neverEmpty(delta) == FALSE

isEmptyPatch(delta) ==
    /\ Len(delta.nodes) = 0
    /\ Len(delta.connections) = 0
    /\ ~IsSome(delta.viewport)

\* a save() that never evicts
keepAll(stack) == stack

\* the FIFO eviction of save(): if (undoStack.length > maxDepth) undoStack.shift()
evict(stack) == IF Len(stack) > MaxDepth THEN Tail(stack) ELSE stack

(***************************************************************************)
(* State.                                                                  *)
(***************************************************************************)
VARIABLES
    \* Store.state
    nodes, links, notes, transform,
    \* Store.cache
    handlerAbsolutePositions, nodeToLinks,
    \* SelectionManager.selection of the manager the store is constructed with
    selection,
    \* HistoryManager
    undoStack, redoStack, headState,
    \* the last call made: its name, what it returned, whether it emitted HISTORY_CHANGED,
    \* whether it invoked the injected deserialize callback, the object a query returned,
    \* the id a store command was given (the document, for deserialize and validateState),
    \* the partial entity handed to updateNode, the notifications it put on the event bus,
    \* in order, and the store as the listeners of the notifications emitted before the last
    \* write of the call found it (the listeners of the others find the store as the call
    \* leaves it), and the payload of the last HISTORY_CHANGED it emitted
    lastCall,
    \* number of calls made so far
    opCount,
    \* observation of the run, for the statements about sequences of saves, undos and redos
    timeline, cursor, run,
    \* two snapshots and what diff, applyPatch and applyInversePatch make of them, for the
    \* statements about these functions on their own
    patch,
    \* how many calls of the worked example (Example below) the behaviour has made from its
    \* first call on, -1 once it has left the example
    example

storeVars ==
    <<nodes, links, notes, transform, handlerAbsolutePositions, nodeToLinks, selection>>
historyVars == <<undoStack, redoStack, headState>>
obsVars == <<timeline, cursor, run>>
vars == <<nodes, links, notes, transform, handlerAbsolutePositions, nodeToLinks, selection,
          undoStack, redoStack, headState, lastCall, opCount, timeline, cursor, run, patch,
          example>>

\* a call of the history manager: the deserialize callback is store.setState, which emits
\* STATE_LOADED and RENDER_REQUESTED
Call(op, ret, emitted, deserialized) ==
    [op |-> op, ret |-> ret, emitted |-> emitted, deserialized |-> deserialized,
     value |-> None, arg |-> None, input |-> None, seen |-> <<>>, status |-> None,
     events |-> (IF deserialized THEN <<"STATE_LOADED", "RENDER_REQUESTED">> ELSE <<>>)
                    \o (IF emitted THEN <<"HISTORY_CHANGED">> ELSE <<>>)]

(***************************************************************************)
(* Store caches (src/src/core/State.ts).  A Map is the set of its entries: *)
(* handlerAbsolutePositions holds [id, position] for handler ids,          *)
(* nodeToLinks holds [id, links] for node ids, links being the sequence of *)
(* the ids of the cached connections (the cache holds references to the    *)
(* connection objects of Store.state.links).                               *)
(***************************************************************************)
CacheHas(cache, id) == \E e \in cache : e.id = id
CacheGet(cache, id) == CHOOSE e \in cache : e.id = id

findNodeByHandlerId(ns, handlerId) ==
    LET found == SelectSeq(ns, LAMBDA n : \E j \in DOMAIN n.handlers : n.handlers[j].id = handlerId)
    IN IF found = <<>> THEN None ELSE Some(Head(found))

\* the keys under which rebuildNodeToLinksCache files one connection
LinkOwners(ns, link) ==
    LET sourceNode == findNodeByHandlerId(ns, link.sourceHandlerId)
        targetNode == findNodeByHandlerId(ns, link.targetHandlerId)
    IN (IF IsSome(sourceNode) THEN {The(sourceNode).id} ELSE {})
           \cup (IF IsSome(targetNode)
                      /\ (~IsSome(sourceNode) \/ The(targetNode).id # The(sourceNode).id)
                  THEN {The(targetNode).id} ELSE {})

\* a rebuild that files nothing
emptyNodeToLinks(ns, ls) == {}

rebuildNodeToLinksCache(ns, ls) ==
    LET owners == UNION {LinkOwners(ns, ls[i]) : i \in DOMAIN ls}
    IN {[id |-> id,
         links |-> LET mine == SelectSeq(ls, LAMBDA l : id \in LinkOwners(ns, l))
                   IN [i \in DOMAIN mine |-> mine[i].id]] : id \in owners}

\* an updateHandlerPositionCache that leaves the cache as it is
leaveHandlerPositions(cache, node) == cache

\* updateHandlerPositionCache(node): a later handler with the same id overwrites an earlier
updateHandlerPositionCache(cache, node) ==
    LET own == {node.handlers[j].id : j \in DOMAIN node.handlers}
        lastOf(h) == CHOOSE j \in DOMAIN node.handlers :
                        /\ node.handlers[j].id = h
                        /\ \A k \in DOMAIN node.handlers : node.handlers[k].id = h => k <= j
    IN {e \in cache : e.id \notin own}
           \cup {[id |-> h,
                  position |-> Position(node.position.x + node.handlers[lastOf(h)].offset.x,
                                        node.position.y + node.handlers[lastOf(h)].offset.y)]
                 : h \in own}

removeHandlerPositionsForNode(cache, node) ==
    {e \in cache : e.id \notin {node.handlers[j].id : j \in DOMAIN node.handlers}}

RECURSIVE rebuildHandlerPositionCacheFrom(_, _)
rebuildHandlerPositionCacheFrom(ns, cache) ==
    IF ns = <<>> THEN cache
    ELSE rebuildHandlerPositionCacheFrom(Tail(ns), updateHandlerPositionCache(cache, Head(ns)))

rebuildHandlerPositionCache(ns) == rebuildHandlerPositionCacheFrom(ns, {})

\* getLinksForNode(nodeId): the cached connections of the node
getLinksForNode(cache, ls, nodeId) ==
    IF CacheHas(cache, nodeId)
    THEN LET ids == CacheGet(cache, nodeId).links IN [i \in DOMAIN ids |-> Get(ls, ids[i])]
    ELSE <<>>

\* getHandlerAbsolutePosition(handlerId)
getHandlerAbsolutePosition(cache, handlerId) ==
    IF CacheHas(cache, handlerId) THEN Some(CacheGet(cache, handlerId).position) ELSE None

(***************************************************************************)
(* Observation of the run.  timeline is the sequence of the snapshots that *)
(* the saves captured (the baseline and every recorded change, the oldest  *)
(* dropped with its delta), cursor the place of the snapshot that undo and *)
(* redo have moved to.  run follows the pattern "saves, then k undos, then *)
(* redos": phase, n (recorded saves in a row before the first undo),       *)
(* k (undos), r (redos), view and depth (the store and the undo stack      *)
(* right before the first undo).                                           *)
(***************************************************************************)
\* the nodes, connections and viewport of a snapshot as values: sets of records, without the
\* identity of the position objects
NodeValue(n) == [n EXCEPT !.presentation.position = Position(@.x, @.y)]

View(state) ==
    [nodes |-> {NodeValue(state.nodes[i]) : i \in DOMAIN state.nodes},
     connections |-> Values(state.connections),
     viewport |-> state.metadata.viewport]

StoreView == View(serialize(nodes, links, notes, transform, "view"))

IdleRun ==
    [phase |-> "idle", n |-> 0, k |-> 0, r |-> 0, view |-> None, depth |-> 0, cleared |-> 0]

Min(a, b) == IF a < b THEN a ELSE b

KeepLast(s, count) == IF Len(s) > count THEN SubSeq(s, Len(s) - count + 1, Len(s)) ELSE s

\* a store command, or anything else that breaks the pattern
ObserveOther ==
    /\ run' = [IdleRun EXCEPT !.n = IF run.phase \in {"idle", "saved"} THEN run.n ELSE 0]
    /\ UNCHANGED <<timeline, cursor>>

ObserveSave(kind, newState) ==
    /\ run' = [IdleRun EXCEPT
                  !.phase = "saved",
                  !.n = IF kind = "baseline" THEN 0
                        ELSE LET before == IF run.phase \in {"idle", "saved"} THEN run.n ELSE 0
                             IN IF kind = "recorded" THEN Min(before + 1, MaxDepth + 1)
                                ELSE before,
                  !.cleared = IF kind = "recorded" THEN Len(redoStack) ELSE 0]
    /\ timeline' = IF kind = "baseline" THEN <<View(newState)>>
                   ELSE IF kind = "recorded"
                        THEN KeepLast(Append(SubSeq(timeline, 1, cursor), View(newState)),
                                      MaxDepth + 1)
                        ELSE timeline
    /\ cursor' = IF kind = "empty" THEN cursor ELSE Len(timeline')

ObserveUndo(ok) ==
    /\ run' = IF ok /\ run.phase = "saved"
                  THEN [IdleRun EXCEPT !.phase = "undoing", !.n = run.n, !.k = 1,
                                       !.view = Some(StoreView), !.depth = Len(undoStack)]
              ELSE IF ok /\ run.phase = "undoing" THEN [run EXCEPT !.k = @ + 1]
              ELSE IF ~ok /\ run.phase \in {"saved", "undoing"}
                  THEN [run EXCEPT !.phase = "exhausted"]
              ELSE IdleRun
    /\ cursor' = IF ok /\ cursor > 1 THEN cursor - 1 ELSE cursor
    /\ UNCHANGED timeline

ObserveRedo(ok) ==
    /\ run' = IF ok /\ run.phase \in {"undoing", "redoing"} /\ run.r < run.k
                  THEN [run EXCEPT !.phase = "redoing", !.r = @ + 1]
              ELSE IF ~ok THEN [IdleRun EXCEPT !.cleared = run.cleared]
              ELSE IdleRun
    /\ cursor' = IF ok /\ cursor < Len(timeline) THEN cursor + 1 ELSE cursor
    /\ UNCHANGED timeline

\* an import: a new baseline; cleared is the number of deltas that the history held
ObserveImport(newState) ==
    /\ run' = [IdleRun EXCEPT !.phase = "saved",
                              !.cleared = Len(undoStack) + Len(redoStack)]
    /\ timeline' = <<View(newState)>>
    /\ cursor' = 1

ObserveReset ==
    /\ run' = IdleRun
    /\ timeline' = <<>>
    /\ cursor' = 0

(***************************************************************************)
(* Store commands (src/src/core/State.ts).  Each is a whole call; the      *)
(* notifications it emits have no listener that changes this state.        *)
(***************************************************************************)
\* one more call of the behaviour
\* the worked example: two nodes created, connected, saved, then one undo and one redo
Example ==
    << <<"createNode", "start">>, <<"createNode", "task">>, <<"createLink", "">>,
       <<"save", "">>, <<"undo", "">>, <<"redo", "">> >>

Count(step) ==
    /\ opCount < MaxOps
    /\ opCount' = opCount + 1
    /\ example' = IF example >= 0 /\ example < Len(Example) /\ Example[example + 1] = step
                  THEN example + 1 ELSE -1
    /\ UNCHANGED patch

\* a call of the store that returns nothing and emits the given notifications; arg is the
\* id it was given, if any
Tick(op, arg, events) ==
    /\ Count(<<op, "">>)
    /\ lastCall' = [Call(op, "void", FALSE, FALSE) EXCEPT !.arg = arg, !.events = events]

\* a not-found return that asks for a render
NotFoundEmitting(op, id) ==
    /\ Tick(op, Some(id), <<"RENDER_REQUESTED">>)
    /\ UNCHANGED storeVars
    /\ UNCHANGED historyVars
    /\ ObserveOther

\* the early return of a store command whose id is not in the store: console.warn, nothing
\* written and nothing emitted
NotFound(op, id) ==
    /\ Tick(op, Some(id), <<>>)
    /\ UNCHANGED storeVars
    /\ UNCHANGED historyVars
    /\ ObserveOther

\* what addNode(node) writes
addNodeWrites(node) ==
    /\ nodes' = Append(nodes, node)
    /\ nodeToLinks' = rebuildNodeToLinksCache(nodes', links)
    /\ handlerAbsolutePositions' = updateHandlerPositionCache(handlerAbsolutePositions, node)
    /\ UNCHANGED <<links, notes, transform, selection>>

addNode(node) ==
    /\ Tick("addNode", Some(node.id), <<"NODE_CREATED", "RENDER_REQUESTED">>)
    /\ addNodeWrites(node)
    /\ UNCHANGED historyVars
    /\ ObserveOther

\* a removeLink that leaves the connection where it is
spareLink(ls, id) == ls

\* removeLink(id) applied to the connections: the first one with that id is spliced out
removeLinkFrom(ls, id) == IF HasKey(ls, id) THEN RemoveAt(ls, IndexOf(ls, id)) ELSE ls

\* connectedLinks.forEach(link => this.removeLink(link.id))
RECURSIVE removeLinksFrom(_, _)
removeLinksFrom(ls, connected) ==
    IF connected = <<>> THEN ls
    ELSE removeLinksFrom(removeLinkFrom(ls, Head(connected).id), Tail(connected))

\* the notifications of the removeLink calls of the cascade
RECURSIVE removeLinksEvents(_, _)
removeLinksEvents(ls, connected) ==
    IF connected = <<>> THEN <<>>
    ELSE (IF HasKey(ls, Head(connected).id)
          THEN <<"CONNECTION_REMOVED", "RENDER_REQUESTED">> ELSE <<>>)
             \o removeLinksEvents(removeLinkFrom(ls, Head(connected).id), Tail(connected))

\* SelectionManager.handleNodeRemoved, handleLinkRemoved and handleNoteRemoved, the
\* listeners the Store constructor registers for NODE_REMOVED, CONNECTION_REMOVED and
\* NOTE_REMOVED: clearSelection() if the removed entity is the selected one
Selected(sel, type, id) == IsSome(sel) /\ The(sel).type = type /\ The(sel).id = id

handleNodeRemoved(sel, nodeId) == IF Selected(sel, "node", nodeId) THEN None ELSE sel

handleLinkRemoved(sel, linkId) == IF Selected(sel, "link", linkId) THEN None ELSE sel

handleNoteRemoved(sel, noteId) == IF Selected(sel, "note", noteId) THEN None ELSE sel

\* the listener of CONNECTION_REMOVED at each removeLink of the cascade of removeNode
RECURSIVE handleLinksRemoved(_, _, _)
handleLinksRemoved(sel, ls, connected) ==
    IF connected = <<>> THEN sel
    ELSE handleLinksRemoved(IF HasKey(ls, Head(connected).id)
                            THEN handleLinkRemoved(sel, Head(connected).id) ELSE sel,
                            removeLinkFrom(ls, Head(connected).id), Tail(connected))

\* the store as the listener of a notification finds it when it is called; the entries of
\* the node-to-connections cache are references to the Connection objects in cached
Snapshot(event, ns, ls, positions, owners, cached) ==
    [event |-> event, nodes |-> ns, links |-> ls, handlerAbsolutePositions |-> positions,
     nodeToLinks |-> owners, cached |-> cached]

\* a cascade whose removeLink emits ahead of the rebuild of the cache
RECURSIVE removeLinksSeenStale(_, _)
removeLinksSeenStale(ls, connected) ==
    IF connected = <<>> THEN <<>>
    ELSE LET rest == removeLinkFrom(ls, Head(connected).id)
         IN (IF HasKey(ls, Head(connected).id)
             THEN <<Snapshot("CONNECTION_REMOVED", nodes, rest, handlerAbsolutePositions,
                             nodeToLinks, links)>>
             ELSE <<>>)
                \o removeLinksSeenStale(rest, Tail(connected))

\* the removeLink calls of the cascade, each at its eventBus.emit('CONNECTION_REMOVED', id):
\* the connection is spliced out and the node-to-connections cache rebuilt, the node and its
\* handler positions are still there
RECURSIVE removeLinksSeen(_, _)
removeLinksSeen(ls, connected) ==
    IF connected = <<>> THEN <<>>
    ELSE LET rest == removeLinkFrom(ls, Head(connected).id)
         IN (IF HasKey(ls, Head(connected).id)
             THEN <<Snapshot("CONNECTION_REMOVED", nodes, rest, handlerAbsolutePositions,
                             rebuildNodeToLinksCache(nodes, rest), rest)>>
             ELSE <<>>)
                \o removeLinksSeen(rest, Tail(connected))

\* what removeNode(id) emits when the node is in the store
removeNodeEvents(id) ==
    removeLinksEvents(links, getLinksForNode(nodeToLinks, links, id))
        \o <<"NODE_REMOVED", "RENDER_REQUESTED">>

\* what removeNode(id) writes when the node is in the store
removeNodeWrites(id) ==
    LET index == IndexOf(nodes, id)
        node == nodes[index]
        connectedLinks == getLinksForNode(nodeToLinks, links, id)
    IN /\ links' = removeLinksFrom(links, connectedLinks)
       /\ nodes' = RemoveAt(nodes, index)
       /\ nodeToLinks' = rebuildNodeToLinksCache(nodes', links')
       /\ handlerAbsolutePositions' =
              removeHandlerPositionsForNode(handlerAbsolutePositions, node)
       /\ selection' = handleNodeRemoved(handleLinksRemoved(selection, links, connectedLinks),
                                         id)
       /\ UNCHANGED <<notes, transform>>

removeNode(id) ==
    IF ~HasKey(nodes, id) THEN NotFound("removeNode", id)
    ELSE
    /\ Count(<<"removeNode", "">>)
    /\ lastCall' = [Call("removeNode", "void", FALSE, FALSE) EXCEPT
                       !.arg = Some(id), !.events = removeNodeEvents(id),
                       !.seen = removeLinksSeen(links, getLinksForNode(nodeToLinks, links, id))]
    /\ removeNodeWrites(id)
    /\ UNCHANGED historyVars
    /\ ObserveOther

\* an update that replaces style and data by the ones it is given
NodeUpdateReplacing(node, changes) ==
    [node EXCEPT
        !.label = IF IsSome(changes.label) THEN The(changes.label) ELSE @,
        !.note = IF IsSome(changes.note) THEN The(changes.note) ELSE @,
        !.style = IF IsSome(changes.style) THEN The(changes.style) ELSE @,
        !.data = IF IsSome(changes.data) THEN The(changes.data) ELSE @]

\* the merge of updateNode(id, changes) into the node
NodeUpdate(node, changes) ==
    [node EXCEPT
        !.label = IF IsSome(changes.label) THEN The(changes.label) ELSE @,
        !.note = IF IsSome(changes.note) THEN The(changes.note) ELSE @,
        !.style = IF IsSome(changes.style) THEN Spread(@, The(changes.style)) ELSE @,
        !.data = IF IsSome(changes.data) THEN Spread(@, The(changes.data)) ELSE @]

\* what updateNode(id, changes) writes when the node is in the store
updateNodeWrites(id, changes) ==
    /\ nodes' = [nodes EXCEPT ![IndexOf(nodes, id)] = NodeUpdate(@, changes)]
    /\ UNCHANGED <<links, notes, transform, selection, handlerAbsolutePositions, nodeToLinks>>

updateNode(id, changes) ==
    IF ~HasKey(nodes, id) THEN NotFound("updateNode", id)
    ELSE
    /\ Count(<<"updateNode", "">>)
    /\ lastCall' = [Call("updateNode", "void", FALSE, FALSE) EXCEPT
                       !.arg = Some(id), !.input = Some(changes),
                       !.events = <<"NODE_UPDATED", "RENDER_REQUESTED">>]
    /\ updateNodeWrites(id, changes)
    /\ UNCHANGED historyVars
    /\ ObserveOther

\* node.position.x = newPosition.x; node.position.y = newPosition.y: the write reaches the
\* object whatever holds it
WritePosition(position, ref, newPosition) ==
    IF position.ref = ref THEN PositionObject(newPosition.x, newPosition.y, ref) ELSE position

WriteInRecord(rec, id, ref, newPosition) ==
    IF rec.id = id
    THEN [rec EXCEPT !.presentation.position = WritePosition(@, ref, newPosition)]
    ELSE rec

WriteInState(state, id, ref, newPosition) ==
    [state EXCEPT !.nodes = [i \in DOMAIN @ |-> WriteInRecord(@[i], id, ref, newPosition)]]

WriteInDelta(delta, id, ref, newPosition) ==
    [delta EXCEPT !.nodes = [i \in DOMAIN @ |->
        [@[i] EXCEPT
            !.old = [j \in DOMAIN @ |-> WriteInRecord(@[j], id, ref, newPosition)],
            !.new = [j \in DOMAIN @ |-> WriteInRecord(@[j], id, ref, newPosition)]]]]

\* what moveNode(id, newPosition) writes when the node is in the store
moveNodeWrites(id, newPosition) ==
    LET index == IndexOf(nodes, id)
        ref == nodes[index].position.ref
    IN /\ nodes' = [nodes EXCEPT ![index].position = WritePosition(@, ref, newPosition)]
       /\ headState' = [j \in DOMAIN headState |->
                            WriteInState(headState[j], id, ref, newPosition)]
       /\ undoStack' = [j \in DOMAIN undoStack |->
                            WriteInDelta(undoStack[j], id, ref, newPosition)]
       /\ redoStack' = [j \in DOMAIN redoStack |->
                            WriteInDelta(redoStack[j], id, ref, newPosition)]
       /\ handlerAbsolutePositions' =
              updateHandlerPositionCache(handlerAbsolutePositions, nodes'[index])
       /\ UNCHANGED <<links, notes, transform, nodeToLinks>>

moveNode(id, newPosition) ==
    IF ~HasKey(nodes, id) THEN NotFound("moveNode", id)
    ELSE
    /\ Tick("moveNode", Some(id), <<"NODE_MOVED", "RENDER_REQUESTED">>)
    /\ moveNodeWrites(id, newPosition)
    /\ UNCHANGED selection
    /\ ObserveOther

\* what addLink(link) writes
addLinkWrites(link) ==
    /\ links' = Append(links, link)
    /\ nodeToLinks' = rebuildNodeToLinksCache(nodes, links')
    /\ UNCHANGED <<nodes, notes, transform, selection, handlerAbsolutePositions>>

addLink(link) ==
    /\ Tick("addLink", Some(link.id), <<"CONNECTION_CREATED", "RENDER_REQUESTED">>)
    /\ addLinkWrites(link)
    /\ UNCHANGED historyVars
    /\ ObserveOther

\* what removeLink(id) writes when the connection is in the store
removeLinkWrites(id) ==
    /\ links' = removeLinkFrom(links, id)
    /\ nodeToLinks' = rebuildNodeToLinksCache(nodes, links')
    /\ selection' = handleLinkRemoved(selection, id)
    /\ UNCHANGED <<nodes, notes, transform, handlerAbsolutePositions>>

removeLink(id) ==
    IF ~HasKey(links, id) THEN NotFound("removeLink", id)
    ELSE
    /\ Tick("removeLink", Some(id), <<"CONNECTION_REMOVED", "RENDER_REQUESTED">>)
    /\ removeLinkWrites(id)
    /\ UNCHANGED historyVars
    /\ ObserveOther

\* what updateLink(id, changes) writes when the connection is in the store
updateLinkWrites(id, changes) ==
    /\ links' = [links EXCEPT ![IndexOf(links, id)] = ConnectionUpdate(@, changes)]
    /\ UNCHANGED <<nodes, notes, transform, selection, handlerAbsolutePositions, nodeToLinks>>

updateLink(id, changes) ==
    IF ~HasKey(links, id) THEN NotFound("updateLink", id)
    ELSE
    /\ Tick("updateLink", Some(id), <<"CONNECTION_UPDATED", "RENDER_REQUESTED">>)
    /\ updateLinkWrites(id, changes)
    /\ UNCHANGED historyVars
    /\ ObserveOther

\* what addNote(note) writes
addNoteWrites(note) ==
    /\ notes' = Append(notes, note)
    /\ UNCHANGED <<nodes, links, transform, selection, handlerAbsolutePositions, nodeToLinks>>

addNote(note) ==
    /\ Tick("addNote", Some(note.id), <<"NOTE_CREATED", "RENDER_REQUESTED">>)
    /\ addNoteWrites(note)
    /\ UNCHANGED historyVars
    /\ ObserveOther

\* what removeNote(id) writes when the note is in the store
removeNoteWrites(id) ==
    /\ notes' = RemoveAt(notes, IndexOf(notes, id))
    /\ selection' = handleNoteRemoved(selection, id)
    /\ UNCHANGED <<nodes, links, transform, handlerAbsolutePositions, nodeToLinks>>

removeNote(id) ==
    IF ~HasKey(notes, id) THEN NotFound("removeNote", id)
    ELSE
    /\ Tick("removeNote", Some(id), <<"NOTE_REMOVED", "RENDER_REQUESTED">>)
    /\ removeNoteWrites(id)
    /\ UNCHANGED historyVars
    /\ ObserveOther

updateNote(id, changes) ==
    IF ~HasKey(notes, id) THEN NotFound("updateNote", id)
    ELSE
    /\ Tick("updateNote", Some(id), <<"NOTE_UPDATED", "RENDER_REQUESTED">>)
    /\ notes' = [notes EXCEPT ![IndexOf(notes, id)] =
                     [@ EXCEPT
                         !.text = IF IsSome(changes.text) THEN The(changes.text) ELSE @,
                         !.position = IF IsSome(changes.position)
                                      THEN The(changes.position) ELSE @,
                         !.dimensions = IF IsSome(changes.dimensions)
                                        THEN The(changes.dimensions) ELSE @]]
    /\ UNCHANGED <<nodes, links, transform, selection, handlerAbsolutePositions, nodeToLinks>>
    /\ UNCHANGED historyVars
    /\ ObserveOther

setTransform(t) ==
    /\ Tick("setTransform", None, <<"RENDER_REQUESTED">>)
    /\ transform' = t
    /\ UNCHANGED selection
    /\ UNCHANGED <<nodes, links, notes, handlerAbsolutePositions, nodeToLinks>>
    /\ UNCHANGED historyVars
    /\ ObserveOther

\* setState(state): the replacement of Store.state and rebuildAllCaches
setState(state) ==
    /\ nodes' = state.nodes
    /\ links' = state.links
    /\ notes' = state.notes
    /\ transform' = state.transform
    /\ nodeToLinks' = rebuildNodeToLinksCache(state.nodes, state.links)
    /\ handlerAbsolutePositions' = rebuildHandlerPositionCache(state.nodes)
    /\ UNCHANGED selection

(***************************************************************************)
(* HistoryManager (src/src/services/index.ts) as DAGWidget wires it        *)
(* (src/src/core/Widget.ts): serialize is SerializationService.serialize   *)
(* of the store, the deserialize callback is                               *)
(* store.setState(serializationService.deserialize(state)).                *)
(***************************************************************************)
canUndo == Len(undoStack) > 0
canRedo == Len(redoStack) > 0

\* the payload of emitHistoryStatus() with the stacks as they are when it is called
emitHistoryStatus(undos, redos) == Some([canUndo |-> Len(undos) > 0, canRedo |-> Len(redos) > 0])

\* a save() that keeps the redo stack
keepRedoStack(stack) == stack

\* this.redoStack = [] of save()
clearRedoStack(stack) == <<>>

\* the first-save test of save(): if (!this.headState)
isFirstSave(head) == ~IsSome(head)

\* save() at the end of the call op, which has written the store and emitted the
\* notifications before
saveAfter(op, before) ==
    LET newState == serialize(nodes', links', notes', transform', <<opCount, "serialize">>)
        done(emitted) ==
            [Call(op, "void", emitted, FALSE) EXCEPT
                !.events = before \o @,
                !.status = IF emitted THEN emitHistoryStatus(undoStack', redoStack') ELSE None]
    IN IF isFirstSave(headState)
       THEN /\ headState' = Some(deepClone(newState, <<opCount, "head">>))
            /\ UNCHANGED <<undoStack, redoStack>>
            /\ lastCall' = done(TRUE)
            /\ ObserveSave("baseline", newState)
       ELSE LET delta == diff(The(headState), newState)
            IN IF isEmptyPatch(delta)
               THEN /\ UNCHANGED historyVars
                    /\ lastCall' = done(FALSE)
                    /\ ObserveSave("empty", newState)
               ELSE /\ undoStack' = evict(Append(undoStack, delta))
                    /\ redoStack' = clearRedoStack(redoStack)
                    /\ headState' = Some(deepClone(newState, <<opCount, "head">>))
                    /\ lastCall' = done(TRUE)
                    /\ ObserveSave("recorded", newState)

save ==
    /\ Count(<<"save", "">>)
    /\ UNCHANGED storeVars
    /\ saveAfter("save", <<>>)

\* an undo() on an empty undo stack that forgets the head
undoRejectedForgetting ==
    /\ lastCall' = Call("undo", "false", FALSE, FALSE)
    /\ UNCHANGED storeVars
    /\ UNCHANGED <<undoStack, redoStack>>
    /\ headState' = None
    /\ ObserveUndo(FALSE)

\* undo() on an empty undo stack: the early return
undoRejected ==
    /\ lastCall' = Call("undo", "false", FALSE, FALSE)
    /\ UNCHANGED storeVars
    /\ UNCHANGED historyVars
    /\ ObserveUndo(FALSE)

\* undo() past the early return
undoApplied ==
    LET delta == undoStack[Len(undoStack)]
        prevState == applyInversePatch(The(headState), delta, <<opCount, "clone">>)
    IN /\ undoStack' = SubSeq(undoStack, 1, Len(undoStack) - 1)
       /\ redoStack' = Append(redoStack, delta)
       /\ setState(deserialize(prevState))
       /\ headState' = Some(prevState)
       /\ lastCall' = [Call("undo", "true", TRUE, TRUE) EXCEPT
                          !.status = emitHistoryStatus(undoStack', redoStack')]
       /\ ObserveUndo(TRUE)

undo ==
    /\ Count(<<"undo", "">>)
    /\ IF ~canUndo THEN undoRejected ELSE undoApplied

\* a redo() on an empty redo stack that reports success
redoRejectedAsDone ==
    /\ lastCall' = Call("redo", "true", FALSE, FALSE)
    /\ UNCHANGED storeVars
    /\ UNCHANGED historyVars
    /\ ObserveRedo(FALSE)

\* redo() on an empty redo stack: the early return
redoRejected ==
    /\ lastCall' = Call("redo", "false", FALSE, FALSE)
    /\ UNCHANGED storeVars
    /\ UNCHANGED historyVars
    /\ ObserveRedo(FALSE)

\* redo() past the early return
redoApplied ==
    LET delta == redoStack[Len(redoStack)]
        nextState == applyPatch(The(headState), delta, <<opCount, "clone">>)
    IN /\ redoStack' = SubSeq(redoStack, 1, Len(redoStack) - 1)
       /\ undoStack' = Append(undoStack, delta)
       /\ setState(deserialize(nextState))
       /\ headState' = Some(nextState)
       /\ lastCall' = [Call("redo", "true", TRUE, TRUE) EXCEPT
                          !.status = emitHistoryStatus(undoStack', redoStack')]
       /\ ObserveRedo(TRUE)

redo ==
    /\ Count(<<"redo", "">>)
    /\ IF ~canRedo THEN redoRejected ELSE redoApplied

reset ==
    /\ Count(<<"reset", "">>)
    /\ undoStack' = <<>>
    /\ redoStack' = <<>>
    /\ headState' = None
    /\ lastCall' = [Call("reset", "void", TRUE, FALSE) EXCEPT
                       !.status = emitHistoryStatus(undoStack', redoStack')]
    /\ UNCHANGED storeVars
    /\ ObserveReset

(***************************************************************************)
(* The calls of a behaviour.  A node or connection handed to the store is  *)
(* built by the caller: a node of type "start" or "task", with or without  *)
(* a handler of its own, and the connection between the two handlers.      *)
(* Ids are unique: an entity is added only under an id not in the store.   *)
(***************************************************************************)
TypeOf(id) == IF id = "n1" THEN "start" ELSE "task"

HandlerOf(id) ==
    IF id = "n1" THEN Handler("h1", "output", "out", Position(1, 0), "right")
    ELSE Handler("h2", "input", "in", Position(0, 0), "left")

NewNodes(id) ==
    {Node(id, TypeOf(id), PositionObject(0, 0, <<opCount, "arg">>), "", <<>>, hs) :
        hs \in {<<>>, <<HandlerOf(id)>>}}

NewLinks(id) == {Connection(id, "default", "h1", "h2", "bezier", <<>>)}

NewNotes(id) == {Note(id, Position(0, 0), "New Note", DefaultNoteDimensions)}

NoNodeChanges == [label |-> None, note |-> None, style |-> None, data |-> None]
NodeChanges ==
    {[NoNodeChanges EXCEPT !.label = Some("A")],
     [NoNodeChanges EXCEPT !.data = Some(<< <<"timeout", "5000">> >>)]}

NoLinkChanges == [label |-> None, style |-> None, data |-> None, pathType |-> None]
LinkChanges == {[NoLinkChanges EXCEPT !.pathType = Some("straight")]}

NoNoteChanges == [text |-> None, position |-> None, dimensions |-> None]
NoteChanges == {[NoNoteChanges EXCEPT !.text = Some("todo")]}

\* new Store(...): an empty graph, the identity transform, empty caches
InitStore ==
    /\ nodes = <<>>
    /\ links = <<>>
    /\ notes = <<>>
    /\ transform = [k |-> 1, x |-> 0, y |-> 0]
    /\ handlerAbsolutePositions = {}
    /\ nodeToLinks = {}
    /\ selection = None

\* new HistoryManager(...): empty stacks, no head
InitHistoryManager ==
    /\ undoStack = <<>>
    /\ redoStack = <<>>
    /\ headState = None
    /\ timeline = <<>>
    /\ cursor = 0
    /\ run = IdleRun

\* new DAGWidget(...): the constructor ends with historyManager.save() on the empty store
InitWidget ==
    LET newState == serialize(<<>>, <<>>, <<>>, [k |-> 1, x |-> 0, y |-> 0], <<0, "serialize">>)
    IN /\ undoStack = <<>>
       /\ redoStack = <<>>
       /\ headState = Some(deepClone(newState, <<0, "head">>))
       /\ timeline = <<View(newState)>>
       /\ cursor = 1
       /\ run = [IdleRun EXCEPT !.phase = "saved"]

\* no snapshots under study
NoPatch ==
    [phase |-> "none", A |-> None, B |-> None, D |-> None, inverse |-> None,
     forward |-> None, redone |-> None, undone |-> None]

\* a history manager on its own store, or the one of a widget
Init ==
    /\ InitStore
    /\ InitHistoryManager \/ InitWidget
    /\ lastCall = Call("new", "void", FALSE, FALSE)
    /\ opCount = 0
    /\ patch = NoPatch
    /\ example = 0

Next ==
    \/ \E id \in NodeIds \ Keys(nodes) : \E node \in NewNodes(id) : addNode(node)
    \/ \E id \in NodeIds : removeNode(id)
    \/ \E id \in NodeIds : \E changes \in NodeChanges : updateNode(id, changes)
    \/ \E id \in NodeIds : \E p \in Positions : moveNode(id, p)
    \/ \E id \in ConnIds \ Keys(links) : \E link \in NewLinks(id) : addLink(link)
    \/ \E id \in ConnIds : removeLink(id)
    \/ \E id \in ConnIds : \E changes \in LinkChanges : updateLink(id, changes)
    \/ \E id \in NoteIds \ Keys(notes) : \E note \in NewNotes(id) : addNote(note)
    \/ \E id \in NoteIds : removeNote(id)
    \/ \E id \in NoteIds : \E changes \in NoteChanges : updateNote(id, changes)
    \/ \E t \in Transforms : setTransform(t)
    \/ save
    \/ undo
    \/ redo
    \/ reset

Spec == Init /\ [][Next]_vars

(***************************************************************************)
(* The history manager with a deserialize callback that can throw.  The    *)
(* callback is injected (constructor of HistoryManager); one that throws   *)
(* does so before it has written the store.                                *)
(***************************************************************************)
\* undo() past the early return when this.deserialize(prevState) throws: the delta has been
\* popped and pushed on the redo stack, the catch block returns false
undoFailed ==
    LET delta == undoStack[Len(undoStack)]
    IN /\ undoStack' = SubSeq(undoStack, 1, Len(undoStack) - 1)
       /\ redoStack' = Append(redoStack, delta)
       /\ UNCHANGED storeVars
       /\ UNCHANGED headState
       /\ lastCall' = [Call("undo", "false", FALSE, FALSE) EXCEPT !.arg = Some("throws")]
       /\ ObserveUndo(FALSE)

\* redo() past the early return when this.deserialize(nextState) throws
redoFailed ==
    LET delta == redoStack[Len(redoStack)]
    IN /\ redoStack' = SubSeq(redoStack, 1, Len(redoStack) - 1)
       /\ undoStack' = Append(undoStack, delta)
       /\ UNCHANGED storeVars
       /\ UNCHANGED headState
       /\ lastCall' = [Call("redo", "false", FALSE, FALSE) EXCEPT !.arg = Some("throws")]
       /\ ObserveRedo(FALSE)

undoThrowing ==
    /\ Count(<<"undo", "">>)
    /\ canUndo
    /\ undoFailed

redoThrowing ==
    /\ Count(<<"redo", "">>)
    /\ canRedo
    /\ redoFailed

\* store commands on nodes, save, undo and redo, with a callback that throws or not
NextCallback ==
    \/ \E id \in NodeIds \ Keys(nodes) : \E node \in NewNodes(id) : addNode(node)
    \/ \E id \in NodeIds : removeNode(id)
    \/ \E id \in NodeIds : \E changes \in NodeChanges : updateNode(id, changes)
    \/ save
    \/ undo
    \/ redo
    \/ undoThrowing
    \/ redoThrowing

SpecCallback == Init /\ [][NextCallback]_vars

(***************************************************************************)
(* The command facade (src/src/core/API.ts).  Every command is one call:   *)
(* the store command and the historyManager.save() that follows it.  The   *)
(* ids it generates (Date.now() and Math.random()) are new at every call:  *)
(* the number of the call stands for them.                                 *)
(***************************************************************************)
\* a payload without an id
NoId == <<>>
createNodeId(n) == <<"node", n>>
createConnectionId(n) == <<"conn", n>>
createNoteId(n) == <<"note", n>>

\* a command that throws CommandError before it has written anything
Thrown(op) ==
    /\ lastCall' = Call(op, "CommandError", FALSE, FALSE)
    /\ UNCHANGED storeVars
    /\ UNCHANGED historyVars
    /\ ObserveOther

\* a command that throws CommandError because the entity with the given id is not in the
\* store
ThrownNotFound(op, id) ==
    /\ lastCall' = [Call(op, "CommandError", FALSE, FALSE) EXCEPT !.arg = Some(id)]
    /\ UNCHANGED storeVars
    /\ UNCHANGED historyVars
    /\ ObserveOther

\* a command that returns after console.warn: the entity with the given id is not in the
\* store
Warned(op, id) ==
    /\ lastCall' = [Call(op, "void", FALSE, FALSE) EXCEPT !.arg = Some(id)]
    /\ UNCHANGED storeVars
    /\ UNCHANGED historyVars
    /\ ObserveOther

\* a JavaScript value in the place of a coordinate: a number, NaN, or undefined
Num(v) == <<"number", v>>
NaN == <<"NaN", 0>>
Undefined == <<"undefined", 0>>
TypeofNumber(c) == c[1] \in {"number", "NaN"}
isNaN(c) == c[1] # "number"

\* validateCreateNodePayload: the payload has a type and numbers for x and y
validateCreateNodePayload(payload) ==
    /\ payload.type # ""
    /\ TypeofNumber(payload.x) /\ TypeofNumber(payload.y)
    /\ ~isNaN(payload.x) /\ ~isNaN(payload.y)

\* validateSpawnConnectedPayload: a type, x and y of type number, a source handler id
validateSpawnConnectedPayload(payload) ==
    /\ payload.type # ""
    /\ TypeofNumber(payload.x) /\ TypeofNumber(payload.y)
    /\ payload.sourceHandlerId # ""

\* a createNode that looks at the payload and the registry after store.addNode
createNodeWritingFirst(payload) ==
    LET node == Node(createNodeId(opCount), payload.type,
                     PositionObject(payload.x[2], payload.y[2], <<opCount, "arg">>),
                     "", <<>>, <<>>)
    IN /\ Count(<<"createNode", payload.type>>)
       /\ addNodeWrites(node)
       /\ IF ~validateCreateNodePayload(payload) \/ payload.type \notin RegisteredNodeTypes
          THEN /\ lastCall' = Call("createNode", "CommandError", FALSE, FALSE)
               /\ UNCHANGED historyVars
               /\ ObserveOther
          ELSE saveAfter("createNode", <<"NODE_CREATED", "RENDER_REQUESTED">>)

\* api.commands.createNode({type, x, y}): new Node(...) is called without handlers
createNode(payload) ==
    /\ Count(<<"createNode", payload.type>>)
    /\ IF ~validateCreateNodePayload(payload) \/ payload.type \notin RegisteredNodeTypes
       THEN Thrown("createNode")
       ELSE LET node == Node(createNodeId(opCount), payload.type,
                             PositionObject(payload.x[2], payload.y[2], <<opCount, "arg">>),
                             "", <<>>, <<>>)
            IN /\ addNodeWrites(node)
               /\ saveAfter("createNode", <<"NODE_CREATED", "RENDER_REQUESTED">>)

\* api.commands.spawnNodeConnected({type, x, y, sourceHandlerId}): the connection is made to
\* the first handler of the new node that takes input
spawnNodeConnected(payload) ==
    /\ Count(<<"spawnNodeConnected", payload.type>>)
    /\ IF ~validateSpawnConnectedPayload(payload) \/ payload.type \notin RegisteredNodeTypes
       THEN Thrown("spawnNodeConnected")
       ELSE LET sourceHandlerId == payload.sourceHandlerId
                node == Node(createNodeId(opCount), payload.type,
                             PositionObject(payload.x[2], payload.y[2], <<opCount, "arg">>),
                             "", <<>>, <<>>)
                targetHandlers == SelectSeq(node.handlers, LAMBDA h : h.flow \in {"in", "any"})
            IN IF targetHandlers = <<>>
               THEN /\ addNodeWrites(node)
                    /\ saveAfter("spawnNodeConnected", <<"NODE_CREATED", "RENDER_REQUESTED">>)
               ELSE LET connection == Connection(createConnectionId(opCount), "default",
                                                 sourceHandlerId, Head(targetHandlers).id,
                                                 "bezier", <<>>)
                    IN /\ nodes' = Append(nodes, node)
                       /\ links' = Append(links, connection)
                       /\ nodeToLinks' = rebuildNodeToLinksCache(nodes', links')
                       /\ handlerAbsolutePositions' =
                              updateHandlerPositionCache(handlerAbsolutePositions, node)
                       /\ UNCHANGED <<notes, transform, selection>>
                       /\ saveAfter("spawnNodeConnected",
                                    <<"NODE_CREATED", "RENDER_REQUESTED",
                                      "CONNECTION_CREATED", "RENDER_REQUESTED">>)

\* a createLink that connects whatever it is given
createLinkUnchecked(sourceHandlerId, targetHandlerId) == TRUE

\* the tests of api.commands.createLink: both handlers have a cached position and differ,
\* and the registry has a connection type
createLinkAccepts(sourceHandlerId, targetHandlerId) ==
    /\ IsSome(getHandlerAbsolutePosition(handlerAbsolutePositions, sourceHandlerId))
    /\ IsSome(getHandlerAbsolutePosition(handlerAbsolutePositions, targetHandlerId))
    /\ sourceHandlerId # targetHandlerId
    /\ RegisteredConnectionTypes # {}

\* api.commands.createLink(sourceHandlerId, targetHandlerId)
createLink(sourceHandlerId, targetHandlerId) ==
    /\ Count(<<"createLink", "">>)
    /\ IF ~createLinkAccepts(sourceHandlerId, targetHandlerId) THEN Thrown("createLink")
       ELSE /\ addLinkWrites(Connection(createConnectionId(opCount), "default",
                                        sourceHandlerId, targetHandlerId, "bezier", <<>>))
            /\ saveAfter("createLink", <<"CONNECTION_CREATED", "RENDER_REQUESTED">>)

\* api.commands.deleteNode(id)
deleteNode(id) ==
    /\ Count(<<"deleteNode", "">>)
    /\ IF ~HasKey(nodes, id) THEN Warned("deleteNode", id)
       ELSE /\ removeNodeWrites(id)
            /\ saveAfter("deleteNode", removeNodeEvents(id))

\* api.commands.updateNode(payload) for a node that is not in the store
apiUpdateNodeNotFound(id) == ThrownNotFound("updateNode", id)

\* api.commands.updateNode(payload)
apiUpdateNode(id, changes) ==
    /\ Count(<<"updateNode", "">>)
    /\ IF id = NoId THEN Thrown("updateNode")
       ELSE IF ~HasKey(nodes, id) THEN apiUpdateNodeNotFound(id)
       ELSE /\ updateNodeWrites(id, changes)
            /\ saveAfter("updateNode", <<"NODE_UPDATED", "RENDER_REQUESTED">>)

\* api.commands.deleteLink(id)
deleteLink(id) ==
    /\ Count(<<"deleteLink", "">>)
    /\ IF ~HasKey(links, id) THEN Warned("deleteLink", id)
       ELSE /\ removeLinkWrites(id)
            /\ saveAfter("deleteLink", <<"CONNECTION_REMOVED", "RENDER_REQUESTED">>)

\* api.commands.updateLink(payload) for a connection that is not in the store
apiUpdateLinkNotFound(id) == ThrownNotFound("updateLink", id)

\* api.commands.updateLink(payload)
apiUpdateLink(id, changes) ==
    /\ Count(<<"updateLink", "">>)
    /\ IF id = NoId THEN Thrown("updateLink")
       ELSE IF ~HasKey(links, id) THEN apiUpdateLinkNotFound(id)
       ELSE /\ updateLinkWrites(id, changes)
            /\ saveAfter("updateLink", <<"CONNECTION_UPDATED", "RENDER_REQUESTED">>)

\* api.commands.createNote(x, y)
createNote(position) ==
    /\ Count(<<"createNote", "">>)
    /\ addNoteWrites(Note(createNoteId(opCount), position, "New Note", DefaultNoteDimensions))
    /\ saveAfter("createNote", <<"NOTE_CREATED", "RENDER_REQUESTED">>)

\* api.commands.deleteNote(id)
deleteNote(id) ==
    /\ Count(<<"deleteNote", "">>)
    /\ IF ~HasKey(notes, id) THEN Warned("deleteNote", id)
       ELSE /\ removeNoteWrites(id)
            /\ saveAfter("deleteNote", <<"NOTE_REMOVED", "RENDER_REQUESTED">>)

\* an import that keeps the history it finds
importKeepingHistory(head) == head

\* historyManager.reset() in the middle of importState: the head that save() then finds
importResetHead(head) == None

\* api.commands.importState(data): deserialize, setState, reset, save
importState(data) ==
    /\ Count(<<"importState", "">>)
    /\ setState(deserialize(data))
    /\ LET newState == serialize(nodes', links', notes', transform', <<opCount, "serialize">>)
           head == importResetHead(headState)
       IN /\ IF isFirstSave(head)
             THEN /\ undoStack' = <<>>
                  /\ redoStack' = <<>>
                  /\ headState' = Some(deepClone(newState, <<opCount, "head">>))
             ELSE UNCHANGED historyVars
          /\ lastCall' = [Call("importState", "void", TRUE, FALSE) EXCEPT
                             !.events = <<"STATE_LOADED", "RENDER_REQUESTED",
                                          "HISTORY_CHANGED", "HISTORY_CHANGED">>,
                             !.status = emitHistoryStatus(undoStack', redoStack')]
          /\ ObserveImport(newState)

\* the documents handed to importState: the empty diagram, one node, and two nodes with
\* their handlers and the connection between them
DocNode(n) ==
    Node(<<"doc", n>>, TypeOf(IF n = 1 THEN "n1" ELSE "n2"),
         PositionObject(0, 0, <<opCount, "doc">>), "", <<>>,
         <<HandlerOf(IF n = 1 THEN "n1" ELSE "n2")>>)

ImportDocuments ==
    {serialize(d[1], d[2], <<>>, [k |-> 1, x |-> 0, y |-> 0], <<opCount, "doc">>) :
        d \in {<< <<>>, <<>> >>,
               << <<DocNode(1)>>, <<>> >>,
               << <<DocNode(1), DocNode(2)>>,
                  <<Connection(<<"doc", 3>>, "default", "h1", "h2", "bezier", <<>>)>> >>}}

HandlerIds == {"h1", "h2"}
PayloadTypes == RegisteredNodeTypes \cup {"unregistered"}

\* the payloads of createNode and spawnNodeConnected: a registered or unregistered type at
\* the origin, and the payloads without a type, without a number, with NaN, without a source
NodePayload(type, x, y) == [type |-> type, x |-> x, y |-> y]
SpawnPayload(type, x, y, sourceHandlerId) ==
    [type |-> type, x |-> x, y |-> y, sourceHandlerId |-> sourceHandlerId]
CreateNodePayloads ==
    {NodePayload(type, Num(0), Num(0)) : type \in PayloadTypes}
        \cup {NodePayload("", Num(0), Num(0)), NodePayload("task", Undefined, Num(0)),
              NodePayload("task", Num(0), NaN)}
SpawnConnectedPayloads ==
    {SpawnPayload(type, Num(0), Num(0), "h1") : type \in {"task", "unregistered"}}
        \cup {SpawnPayload("", Num(0), Num(0), "h1"), SpawnPayload("task", Num(0), Undefined, "h1"),
              SpawnPayload("task", Num(0), Num(0), "")}
MissingNodeId == createNodeId(-1)
MissingConnectionId == createConnectionId(-1)
MissingNoteId == createNoteId(-1)

\* the widget a caller drives through api.commands, with the save() and reset() of its
\* history manager
InitAPI ==
    /\ InitStore
    /\ InitWidget
    /\ lastCall = Call("new", "void", FALSE, FALSE)
    /\ opCount = 0
    /\ patch = NoPatch
    /\ example = 0

\* a caller that keeps the diagram small
RoomForNode == Len(nodes) < MaxNodes
RoomForNote == Len(notes) < MaxNotes

NextAPI ==
    \/ \E payload \in CreateNodePayloads : RoomForNode /\ createNode(payload)
    \/ \E payload \in SpawnConnectedPayloads : RoomForNode /\ spawnNodeConnected(payload)
    \/ \E hs \in HandlerIds : \E ht \in HandlerIds : createLink(hs, ht)
    \/ \E id \in Keys(nodes) \cup {MissingNodeId} : deleteNode(id)
    \/ \E id \in Keys(nodes) \cup {MissingNodeId, NoId} :
          apiUpdateNode(id, [NoNodeChanges EXCEPT !.label = Some("A")])
    \/ \E id \in Keys(links) \cup {MissingConnectionId} : deleteLink(id)
    \/ \E id \in Keys(links) \cup {MissingConnectionId, NoId} : \E changes \in LinkChanges :
          apiUpdateLink(id, changes)
    \/ RoomForNote /\ createNote(Position(0, 0))
    \/ \E id \in Keys(notes) \cup {MissingNoteId} : deleteNote(id)
    \/ \E data \in ImportDocuments : importState(data)
    \/ save
    \/ undo
    \/ redo
    \/ reset

SpecAPI == InitAPI /\ [][NextAPI]_vars

\* the diagrams of a host that has built the nodes with their handlers and handed them to
\* the store: two nodes, with or without the connection between them
LoadedStates ==
    {[nodes |-> <<DocNode(1), DocNode(2)>>, links |-> ls, notes |-> <<>>,
      transform |-> [k |-> 1, x |-> 0, y |-> 0]] :
        ls \in {<<>>, <<Connection(<<"doc", 3>>, "default", "h1", "h2", "bezier", <<>>)>>}}

\* the widget after store.setState(state) and historyManager.save() on the new history
InitLoaded ==
    /\ opCount = 0
    /\ \E state \in LoadedStates :
          LET newState == serialize(state.nodes, state.links, state.notes, state.transform,
                                    <<0, "serialize">>)
          IN /\ nodes = state.nodes
             /\ links = state.links
             /\ notes = state.notes
             /\ transform = state.transform
             /\ nodeToLinks = rebuildNodeToLinksCache(state.nodes, state.links)
             /\ handlerAbsolutePositions = rebuildHandlerPositionCache(state.nodes)
             /\ selection = None
             /\ undoStack = <<>>
             /\ redoStack = <<>>
             /\ headState = Some(deepClone(newState, <<0, "head">>))
             /\ timeline = <<View(newState)>>
             /\ cursor = 1
             /\ run = [IdleRun EXCEPT !.phase = "saved"]
    /\ lastCall = Call("new", "void", FALSE, FALSE)
    /\ patch = NoPatch
    /\ example = -1

\* a behaviour on the loaded diagram has MaxLoadedOps calls
LoadedBudget == opCount < MaxLoadedOps

\* the commands that create and delete nodes and connections, undo, redo and importState
NextLoaded ==
    \/ \E type \in PayloadTypes :
          LoadedBudget /\ createNode(NodePayload(type, Num(0), Num(0)))
    \/ \E type \in {"task", "unregistered"} :
          LoadedBudget /\ spawnNodeConnected(SpawnPayload(type, Num(0), Num(0), "h1"))
    \/ \E hs \in HandlerIds : \E ht \in HandlerIds : LoadedBudget /\ createLink(hs, ht)
    \/ \E id \in Keys(nodes) \cup {MissingNodeId} : LoadedBudget /\ deleteNode(id)
    \/ \E id \in Keys(links) \cup {MissingConnectionId} : LoadedBudget /\ deleteLink(id)
    \/ \E data \in ImportDocuments : LoadedBudget /\ importState(data)
    \/ LoadedBudget /\ undo
    \/ LoadedBudget /\ redo

\* the command facade on a diagram whose nodes have handlers
SpecLoaded == InitLoaded /\ [][NextLoaded]_vars

(***************************************************************************)
(* The input layer (src/src/services/InputSystem.ts) on the elements the   *)
(* renderer has drawn for the nodes and connections of the store.  A mouse *)
(* gesture is one step: the mouse down, the moves and the mouse up.        *)
(***************************************************************************)
\* Config.GRID_SIZE
GridSize == 20

\* CoordinateTransform.snapToGrid: Math.round(v / gridSize) * gridSize
snapToGrid(position) ==
    Position(((2 * position.x + GridSize) \div (2 * GridSize)) * GridSize,
             ((2 * position.y + GridSize) \div (2 * GridSize)) * GridSize)

\* SelectionManager.setSelection as selectNode and selectLink call it
setSelection(type, id) == Some([type |-> type, id |-> id])

\* what setSelection and clearSelection emit
selectionEvents(changed) ==
    IF changed THEN <<"SELECTION_CHANGED", "RENDER_REQUESTED">> ELSE <<>>

\* IdleState.onMouseDown on the element of a node and the mouse up of NodeDragState with
\* no move in between: the node is selected
clickNode(id) ==
    /\ Tick("clickNode", Some(id), selectionEvents(~Selected(selection, "node", id)))
    /\ selection' = setSelection("node", id)
    /\ UNCHANGED <<nodes, links, notes, transform, handlerAbsolutePositions, nodeToLinks>>
    /\ UNCHANGED historyVars
    /\ ObserveOther

\* IdleState.onMouseDown on the element of a connection
clickLink(id) ==
    /\ Tick("clickLink", Some(id), selectionEvents(~Selected(selection, "link", id)))
    /\ selection' = setSelection("link", id)
    /\ UNCHANGED <<nodes, links, notes, transform, handlerAbsolutePositions, nodeToLinks>>
    /\ UNCHANGED historyVars
    /\ ObserveOther

\* IdleState.onMouseDown on the background: clearSelection()
clickBackground ==
    /\ Tick("clickBackground", None, selectionEvents(IsSome(selection)))
    /\ selection' = None
    /\ UNCHANGED <<nodes, links, notes, transform, handlerAbsolutePositions, nodeToLinks>>
    /\ UNCHANGED historyVars
    /\ ObserveOther

\* a drag of a node by (dx, dy): mouse down on its element (selectNode, NodeDragState),
\* a mouse move (moveNode to the initial position plus the distance), the mouse up
\* (moveNode to the snapped position) and NodeDragState.exit, which emits HISTORY_CHANGED
\* with canUndo true and canRedo false
dragNode(id, dx, dy) ==
    LET node == Get(nodes, id)
        moved == Position(node.position.x + dx, node.position.y + dy)
    IN /\ Count(<<"dragNode", "">>)
       /\ lastCall' = [Call("dragNode", "void", FALSE, FALSE) EXCEPT
                          !.arg = Some(id),
                          !.events = selectionEvents(~Selected(selection, "node", id))
                                        \o <<"NODE_MOVED", "RENDER_REQUESTED",
                                             "NODE_MOVED", "RENDER_REQUESTED",
                                             "HISTORY_CHANGED">>,
                          !.status = Some([canUndo |-> TRUE, canRedo |-> FALSE])]
       /\ selection' = setSelection("node", id)
       /\ moveNodeWrites(id, snapToGrid(moved))
       /\ ObserveOther

\* the distances of the drags
MouseMoves == {9, 12}

\* a behaviour of the facade and the input layer has MaxInputOps calls
InputBudget == opCount < MaxInputOps

\* the commands of the facade, undo, redo and importState, and the gestures
NextInput ==
    \/ \E type \in PayloadTypes :
          InputBudget /\ createNode(NodePayload(type, Num(0), Num(0)))
    \/ \E hs \in HandlerIds : \E ht \in HandlerIds : InputBudget /\ createLink(hs, ht)
    \/ \E id \in Keys(nodes) \cup {MissingNodeId} : InputBudget /\ deleteNode(id)
    \/ \E id \in Keys(links) \cup {MissingConnectionId} : InputBudget /\ deleteLink(id)
    \/ \E data \in ImportDocuments : InputBudget /\ importState(data)
    \/ InputBudget /\ undo
    \/ InputBudget /\ redo
    \/ \E id \in Keys(nodes) : InputBudget /\ clickNode(id)
    \/ \E id \in Keys(links) : InputBudget /\ clickLink(id)
    \/ InputBudget /\ clickBackground
    \/ \E id \in Keys(nodes) : \E dx \in MouseMoves : InputBudget /\ dragNode(id, dx, 0)

\* the facade and the input layer on a diagram whose nodes have handlers
SpecInput == InitLoaded /\ [][NextInput]_vars

(***************************************************************************)
(* The store on its own (src/src/core/State.ts): its commands, setState    *)
(* included, and the queries of the store, of api.queries and              *)
(* validateState.  A query returns an object: its value, whether it is     *)
(* frozen, and the place in the store that holds this very object (none    *)
(* when the object is a copy made for the caller).                         *)
(***************************************************************************)
Returned(value, frozen, alias) == [value |-> value, frozen |-> frozen, alias |-> alias]

\* deepFreeze(x.clone()): a frozen copy
FrozenCopy(value) == Returned(value, TRUE, None)

\* Store.getNode(id), getLink(id), getNote(id): null when the id is not in the collection
getEntity(collection, id) == IF HasKey(collection, id) THEN Some(Get(collection, id)) ELSE None

\* version.split('.')[0] for the versions of the documents of the model
majorOf(version) ==
    CASE version = "1.0.0" -> "1"
      [] version = "1.2.0" -> "1"
      [] version = "2.0.0" -> "2"

\* isCompatibleVersion(version): the major version is '1'
isCompatibleVersion(version) == majorOf(version) = "1"

\* validateState(data): the warnings for unregistered types, no errors for a document that
\* has metadata, nodes and connections
validateState(data) ==
    [valid |-> TRUE,
     warnings |-> (IF ~isCompatibleVersion(data.metadata.version)
                   THEN {<<"version", data.metadata.version>>} ELSE {})
                      \cup {<<"node type", data.nodes[i].type>> :
                               i \in {j \in DOMAIN data.nodes :
                                         data.nodes[j].type \notin RegisteredNodeTypes}}
                      \cup {<<"connection type", data.connections[i].type>> :
                               i \in {j \in DOMAIN data.connections :
                                         data.connections[j].type
                                             \notin RegisteredConnectionTypes}},
     errors |-> {}]

\* what the query q returns
queryResult(q) ==
    CASE q.op = "getNode" -> FrozenCopy(getEntity(nodes, q.arg))
      [] q.op = "getLink" -> FrozenCopy(getEntity(links, q.arg))
      [] q.op = "getNote" -> FrozenCopy(getEntity(notes, q.arg))
      [] q.op = "getAllNodes" -> FrozenCopy(nodes)
      [] q.op = "getAllLinks" -> FrozenCopy(links)
      [] q.op = "getAllNotes" -> FrozenCopy(notes)
      [] q.op = "getTransform" -> FrozenCopy(transform)
      [] q.op = "getLinksForNode" -> FrozenCopy(getLinksForNode(nodeToLinks, links, q.arg))
      [] q.op = "getHandlerAbsolutePosition" ->
             \* this.cache.handlerAbsolutePositions.get(handlerId) || null: the cached object
             Returned(getHandlerAbsolutePosition(handlerAbsolutePositions, q.arg), FALSE,
                      IF CacheHas(handlerAbsolutePositions, q.arg) THEN Some(q.arg) ELSE None)
      [] q.op = "getState" ->
             FrozenCopy([nodes |-> nodes, links |-> links, notes |-> notes,
                         transform |-> transform])
      [] q.op = "queries.getNode" -> FrozenCopy(getEntity(nodes, q.arg))
      [] q.op = "queries.getLink" -> FrozenCopy(getEntity(links, q.arg))
      [] q.op = "queries.getGraphData" ->
             FrozenCopy(serialize(nodes, links, notes, transform, <<opCount, "serialize">>))
      [] q.op = "validateState" -> Returned(validateState(q.arg), FALSE, None)

\* a query that asks for a render
queryEmitting(q) == <<"RENDER_REQUESTED">>

\* what a query puts on the event bus
queryEvents(q) == <<>>

\* one query: nothing is written
query(q) ==
    /\ Count(<<q.op, "">>)
    /\ lastCall' = [Call(q.op, "value", FALSE, FALSE) EXCEPT
                       !.value = Some(queryResult(q)), !.events = queryEvents(q)]
    /\ UNCHANGED storeVars
    /\ UNCHANGED historyVars
    /\ ObserveOther

\* the caller of the last query assigns to a field of the object it was handed (the x of a
\* position): nothing happens to a frozen object or to a copy, and the write lands in the
\* store when the object is the store's own
callerWrites ==
    /\ IsSome(lastCall.value)
    /\ Count(<<"callerWrites", "">>)
    /\ lastCall' = Call("callerWrites", "void", FALSE, FALSE)
    /\ LET returned == The(lastCall.value)
       IN IF ~returned.frozen /\ IsSome(returned.alias)
          THEN handlerAbsolutePositions' =
                   {IF e.id = The(returned.alias)
                    THEN [e EXCEPT !.position.x = @ + 1] ELSE e :
                        e \in handlerAbsolutePositions}
          ELSE UNCHANGED handlerAbsolutePositions
    /\ UNCHANGED <<nodes, links, notes, transform, selection, nodeToLinks>>
    /\ UNCHANGED historyVars
    /\ ObserveOther

\* Store.setState(state) called on its own
storeSetState(state) ==
    /\ Tick("setState", None, <<"STATE_LOADED", "RENDER_REQUESTED">>)
    /\ setState(state)
    /\ UNCHANGED historyVars
    /\ ObserveOther

\* an add-command that takes a null entity for a missing id: a warning and a return
addNullWarned(op) ==
    /\ Count(<<op, "">>)
    /\ lastCall' = Call(op, "void", FALSE, FALSE)
    /\ UNCHANGED storeVars
    /\ UNCHANGED historyVars
    /\ ObserveOther

\* addNode(null), addLink(undefined), addNote(null): if (!entity) throw new TypeError(...)
\* is the first statement of the three commands
addNull(op) ==
    /\ Count(<<op, "">>)
    /\ lastCall' = Call(op, "TypeError", FALSE, FALSE)
    /\ UNCHANGED storeVars
    /\ UNCHANGED historyVars
    /\ ObserveOther

AddCommands == {"addNode", "addLink", "addNote"}

\* the partial nodes handed to updateNode: one field each, data with one key and with two
StoreNodeChanges ==
    {[NoNodeChanges EXCEPT !.label = Some("A")],
     [NoNodeChanges EXCEPT !.note = Some("remember")],
     [NoNodeChanges EXCEPT !.style = Some(<< <<"fill", "red">> >>)],
     [NoNodeChanges EXCEPT !.data = Some(<< <<"timeout", "5000">> >>)],
     [NoNodeChanges EXCEPT !.data = Some(<< <<"retries", "3">>, <<"timeout", "1">> >>),
                           !.label = Some("B")]}

\* the connections handed to addLink: between any two of the handlers
StoreConnIds == {"c1", "c2"}
StoreLinks(id) ==
    {Connection(id, "default", hs, ht, "bezier", <<>>) : hs \in HandlerIds, ht \in HandlerIds}

\* the states handed to setState: both nodes with their handlers, with no connection, with
\* one between them, and with one from a handler to itself
StoreStates ==
    LET n(id) == Node(id, TypeOf(id), PositionObject(0, 0, <<opCount, "arg">>), "", <<>>,
                      <<HandlerOf(id)>>)
    IN {[nodes |-> <<n("n1"), n("n2")>>, links |-> ls, notes |-> <<>>,
         transform |-> [k |-> 1, x |-> 0, y |-> 0]] :
           ls \in {<<>>,
                   <<Connection("c1", "default", "h1", "h2", "bezier", <<>>)>>,
                   <<Connection("c1", "default", "h1", "h1", "bezier", <<>>),
                     Connection("c2", "default", "h2", "h1", "bezier", <<>>)>>}}

Queries ==
    {[op |-> o, arg |-> id] : o \in {"getNode", "getLinksForNode", "queries.getNode"},
                              id \in NodeIds}
        \cup {[op |-> o, arg |-> id] : o \in {"getLink", "queries.getLink"}, id \in ConnIds}
        \cup {[op |-> "getNote", arg |-> id] : id \in NoteIds}
        \cup {[op |-> "getHandlerAbsolutePosition", arg |-> h] : h \in HandlerIds}
        \cup {[op |-> o, arg |-> ""] :
                 o \in {"getAllNodes", "getAllLinks", "getAllNotes", "getTransform",
                        "getState", "queries.getGraphData"}}
        \cup {[op |-> "validateState", arg |-> data] : data \in ImportDocuments}

InitStoreOnly ==
    /\ InitStore
    /\ InitHistoryManager
    /\ lastCall = Call("new", "void", FALSE, FALSE)
    /\ opCount = 0
    /\ patch = NoPatch
    /\ example = 0

\* a behaviour of the store on its own has MaxStoreOps calls
StoreBudget == opCount < MaxStoreOps

NextStore ==
    \/ \E id \in NodeIds \ Keys(nodes) : \E node \in NewNodes(id) :
          StoreBudget /\ addNode(node)
    \/ \E id \in NodeIds : StoreBudget /\ removeNode(id)
    \/ \E id \in NodeIds : \E changes \in StoreNodeChanges :
          StoreBudget /\ updateNode(id, changes)
    \/ \E id \in NodeIds : StoreBudget /\ moveNode(id, Position(MaxCoord, 0))
    \/ \E id \in StoreConnIds \ Keys(links) : \E link \in StoreLinks(id) :
          StoreBudget /\ addLink(link)
    \/ \E id \in StoreConnIds : StoreBudget /\ removeLink(id)
    \/ \E id \in StoreConnIds : \E changes \in LinkChanges :
          StoreBudget /\ updateLink(id, changes)
    \/ \E id \in NoteIds \ Keys(notes) : \E note \in NewNotes(id) :
          StoreBudget /\ addNote(note)
    \/ \E id \in NoteIds : StoreBudget /\ removeNote(id)
    \/ \E id \in NoteIds : \E changes \in NoteChanges :
          StoreBudget /\ updateNote(id, changes)
    \/ \E t \in Transforms : StoreBudget /\ setTransform(t)
    \/ \E state \in StoreStates : StoreBudget /\ storeSetState(state)
    \/ \E op \in AddCommands : StoreBudget /\ addNull(op)
    \/ \E q \in Queries : StoreBudget /\ query(q)

SpecStore == InitStoreOnly /\ [][NextStore]_vars

\* the store with a caller that writes to what the queries hand out
NextCaller ==
    \/ NextStore
    \/ StoreBudget /\ callerWrites

SpecCaller == InitStoreOnly /\ [][NextCaller]_vars

(***************************************************************************)
(* deserialize and validateState on the documents a host may hand in       *)
(* (src/unnamed/part_000).  A document is what JSON.parse returns: each of *)
(* metadata, nodes, connections and notes may be missing, metadata may     *)
(* lack its version or its viewport, and an entry of nodes, connections or *)
(* notes may be null.  Missing and null are None.                          *)
(***************************************************************************)
NoNull(entries) == \A i \in DOMAIN entries : IsSome(entries[i])

\* the statements of deserialize that throw a TypeError, which its catch block turns into
\* DeserializationError: data.metadata.version and version.split on a missing value,
\* Object.values of a missing section, nodeData.type and connData.type of a null entry, and
\* noteData.id of a null note in the catch block of deserializeNotes
deserializeThrows(raw) ==
    \/ ~IsSome(raw.metadata)
    \/ ~IsSome(The(raw.metadata).version)
    \/ ~IsSome(raw.nodes)
    \/ ~NoNull(The(raw.nodes))
    \/ ~IsSome(raw.connections)
    \/ ~NoNull(The(raw.connections))
    \/ IsSome(raw.notes) /\ ~NoNull(The(raw.notes))

\* the document as deserialize reads it when nothing throws: data.notes || {} and
\* data.metadata.viewport || { k: 1, x: 0, y: 0 }
ReadDocument(raw) ==
    [metadata |-> [version |-> The(The(raw.metadata).version),
                   viewport |-> IF IsSome(The(raw.metadata).viewport)
                                THEN The(The(raw.metadata).viewport)
                                ELSE [k |-> 1, x |-> 0, y |-> 0]],
     nodes |-> [i \in DOMAIN The(raw.nodes) |-> The(The(raw.nodes)[i])],
     connections |-> [i \in DOMAIN The(raw.connections) |-> The(The(raw.connections)[i])],
     notes |-> IF IsSome(raw.notes)
               THEN [i \in DOMAIN The(raw.notes) |-> The(The(raw.notes)[i])]
               ELSE <<>>]

\* deserialize(data) on any document: how it ends and the GraphState it returns
deserializeDocument(raw) ==
    IF deserializeThrows(raw)
    THEN [ret |-> "DeserializationError", state |-> None]
    ELSE [ret |-> "value", state |-> Some(deserialize(ReadDocument(raw)))]

\* validateState(data) on any document: it has no try block; data.metadata.version,
\* version.split, Object.values(data.nodes), node.type, Object.values(data.connections) and
\* conn.type throw a TypeError on a missing value, ahead of the structure test; the notes
\* are not read
validateDocument(raw) ==
    IF \/ ~IsSome(raw.metadata)
       \/ ~IsSome(The(raw.metadata).version)
       \/ ~IsSome(raw.nodes)
       \/ ~NoNull(The(raw.nodes))
       \/ ~IsSome(raw.connections)
       \/ ~NoNull(The(raw.connections))
    THEN [ret |-> "TypeError", report |-> None]
    ELSE [ret |-> "value",
          report |-> Some(validateState(ReadDocument([raw EXCEPT !.notes = None])))]

\* one call of serializationService.deserialize(raw)
deserializeCall(raw) ==
    /\ Count(<<"deserialize", "">>)
    /\ lastCall' = [Call("deserialize", deserializeDocument(raw).ret, FALSE, FALSE) EXCEPT
                       !.arg = Some(raw), !.value = deserializeDocument(raw).state]
    /\ UNCHANGED storeVars
    /\ UNCHANGED historyVars
    /\ ObserveOther

\* one call of serializationService.validateState(raw)
validateStateCall(raw) ==
    /\ Count(<<"validateState", "">>)
    /\ lastCall' = [Call("validateState", validateDocument(raw).ret, FALSE, FALSE) EXCEPT
                       !.arg = Some(raw), !.value = validateDocument(raw).report]
    /\ UNCHANGED storeVars
    /\ UNCHANGED historyVars
    /\ ObserveOther

\* the records of the documents: a node of a registered type with one handler, one with two
\* handlers of the type "input", one of a type that is not registered
DocHandle(id, type) ==
    serializeHandler(Handler(id, type, IF type = "input" THEN "in" ELSE "out",
                             Position(0, 0), "left"))

DocNodeRecord(id, type, handles) ==
    [id |-> id, type |-> type, label |-> "", note |-> "", data |-> <<>>,
     presentation |-> [position |-> PositionObject(0, 0, <<0, "doc">>), style |-> <<>>],
     handles |-> handles]

DocNodeLists ==
    {<<>>,
     <<Some(DocNodeRecord("n1", "start", <<DocHandle("h1", "output")>>))>>,
     <<Some(DocNodeRecord("n1", "start", <<DocHandle("h1", "output")>>)),
       Some(DocNodeRecord("n2", "task", <<DocHandle("h2", "input"),
                                          DocHandle("h3", "input")>>))>>,
     <<Some(DocNodeRecord("n1", "unregistered", <<DocHandle("h1", "output")>>)),
       Some(DocNodeRecord("n2", "task", <<DocHandle("h2", "input")>>))>>,
     <<None, Some(DocNodeRecord("n2", "task", <<>>))>>}

DocConnectionLists ==
    {<<>>,
     <<Some(serializeConnection(Connection("c1", "default", "h1", "h2", "bezier", <<>>)))>>,
     <<Some(serializeConnection(Connection("c1", "default", "h1", "h9", "bezier", <<>>)))>>,
     <<Some(serializeConnection(Connection("c1", "unregistered", "h1", "h2", "bezier",
                                           <<>>)))>>,
     <<None>>}

DocNoteLists ==
    {<<>>,
     <<Some(serializeNote(Note("t1", Position(0, 0), "New Note", DefaultNoteDimensions)))>>,
     <<None>>}

DocMetadata ==
    {[version |-> None, viewport |-> Some([k |-> 2, x |-> 0, y |-> 0])],
     [version |-> Some("1.0.0"), viewport |-> Some([k |-> 2, x |-> 0, y |-> 0])],
     [version |-> Some("1.2.0"), viewport |-> None],
     [version |-> Some("2.0.0"), viewport |-> Some([k |-> 2, x |-> 0, y |-> 0])]}

Sections(lists) == {None} \cup {Some(l) : l \in lists}

Documents ==
    {[metadata |-> m, nodes |-> ns, connections |-> cs, notes |-> ts] :
        m \in Sections(DocMetadata), ns \in Sections(DocNodeLists),
        cs \in Sections(DocConnectionLists), ts \in Sections(DocNoteLists)}

\* a behaviour on the documents has MaxDocOps calls
DocBudget == opCount < MaxDocOps

NextDocs ==
    \/ \E raw \in Documents : DocBudget /\ deserializeCall(raw)
    \/ \E raw \in Documents : DocBudget /\ validateStateCall(raw)

SpecDocs == InitStoreOnly /\ [][NextDocs]_vars

(***************************************************************************)
(* diff, applyPatch and applyInversePatch on their own: two snapshots A    *)
(* and B, the delta D = diff(A, B), and the patches applied to them.       *)
(***************************************************************************)
PatchNode(id, x, label) ==
    Node(id, TypeOf(id), PositionObject(x, 0, "input"), label, <<>>, <<HandlerOf(id)>>)

PatchNodeLists ==
    {<<>>, <<PatchNode("n2", 0, "")>>}
    \cup {<<PatchNode("n1", x, label)>> : x \in 0..MaxCoord, label \in {"", "A"}}
    \cup {<<PatchNode("n1", x, ""), PatchNode("n2", 0, "")>> : x \in 0..MaxCoord}
    \cup {<<PatchNode("n2", 0, ""), PatchNode("n1", x, "")>> : x \in 0..MaxCoord}

PatchLinkLists ==
    {<<>>}
    \cup {<<link>> : link \in NewLinks("c1")}
    \cup {<<ConnectionUpdate(link, changes)>> : link \in NewLinks("c1"), changes \in LinkChanges}

PatchStates ==
    {serialize(ns, ls, <<>>, tr, "input") :
        ns \in PatchNodeLists, ls \in PatchLinkLists, tr \in Transforms}

InitPatch ==
    /\ InitStore
    /\ InitHistoryManager
    /\ lastCall = Call("new", "void", FALSE, FALSE)
    /\ opCount = 0
    /\ example = 0
    /\ \E A \in PatchStates : \E B \in PatchStates :
          patch = [NoPatch EXCEPT !.phase = "input", !.A = Some(A), !.B = Some(B)]

PatchFrame == UNCHANGED <<storeVars, historyVars, obsVars, lastCall, opCount, example>>

\* D = diff(A, B)
PatchDiff ==
    /\ patch.phase = "input"
    /\ patch' = [patch EXCEPT !.phase = "diffed",
                              !.D = Some(diff(The(patch.A), The(patch.B)))]
    /\ PatchFrame

\* applyInversePatch(B, D)
PatchInverse ==
    /\ patch.phase = "diffed"
    /\ ~IsSome(patch.inverse)
    /\ patch' = [patch EXCEPT
                    !.inverse = Some(applyInversePatch(The(patch.B), The(patch.D), "inverse"))]
    /\ PatchFrame

\* applyPatch(A, D)
PatchForward ==
    /\ patch.phase = "diffed"
    /\ ~IsSome(patch.forward)
    /\ patch' = [patch EXCEPT
                    !.forward = Some(applyPatch(The(patch.A), The(patch.D), "forward"))]
    /\ PatchFrame

\* applyPatch(applyInversePatch(B, D), D)
PatchInverseForward ==
    /\ IsSome(patch.inverse)
    /\ ~IsSome(patch.redone)
    /\ patch' = [patch EXCEPT
                    !.redone = Some(applyPatch(The(patch.inverse), The(patch.D), "redone"))]
    /\ PatchFrame

\* applyInversePatch(applyPatch(A, D), D)
PatchForwardInverse ==
    /\ IsSome(patch.forward)
    /\ ~IsSome(patch.undone)
    /\ patch' = [patch EXCEPT
                    !.undone = Some(applyInversePatch(The(patch.forward), The(patch.D), "undone"))]
    /\ PatchFrame

NextPatch ==
    \/ PatchDiff
    \/ PatchInverse
    \/ PatchForward
    \/ PatchInverseForward
    \/ PatchForwardInverse

SpecPatch == InitPatch /\ [][NextPatch]_vars

(***************************************************************************)
(* SequentialStrategy.sortNodes and api.commands.traverseDiagram.  The     *)
(* traversal reads copies of the store's nodes and connections; the        *)
(* visitors write to the aggregator of the call only.                      *)
(***************************************************************************)
\* the closure state of one sortNodes call: the arrays and sets of the closure, and
\* whether visit has thrown
SortState(sorted, visited, temp, thrown) ==
    [sorted |-> sorted, visited |-> visited, temp |-> temp, thrown |-> thrown]

\* sorted.push(node): the node is put after the nodes finished before it
push(sorted, node) == Append(sorted, node)

\* sorted.unshift(node): the node is put in front of the nodes finished before it
unshift(sorted, node) == <<node>> \o sorted

\* nodes.find(n => n.handlers.some(h => h.id === handlerId))
nodesFind(ns, handlerId) ==
    LET found == SelectSeq(ns, LAMBDA n : \E j \in DOMAIN n.handlers :
                                              n.handlers[j].id = handlerId)
    IN IF found = <<>> THEN None ELSE Some(Head(found))

RECURSIVE visit(_, _, _, _)
RECURSIVE visitTargets(_, _, _, _)
\* visit(node) of sortNodes: throws on a node that is being visited, returns on a node
\* that is finished, visits the targets of the outgoing connections and then finishes
\* the node
visit(node, ns, ls, st) ==
    IF st.thrown THEN st
    ELSE IF node.id \in st.temp THEN [st EXCEPT !.thrown = TRUE]
    ELSE IF node.id \in st.visited THEN st
    ELSE LET outgoing ==
                 SelectSeq(ls, LAMBDA link :
                     LET sourceNode == nodesFind(ns, link.sourceHandlerId)
                     IN IsSome(sourceNode) /\ The(sourceNode).id = node.id)
             after == visitTargets(outgoing, ns, ls, [st EXCEPT !.temp = @ \cup {node.id}])
         IN IF after.thrown THEN after
            ELSE [after EXCEPT !.temp = @ \ {node.id},
                               !.visited = @ \cup {node.id},
                               !.sorted = unshift(@, node)]

\* outgoing.forEach(link => { if (targetNode) visit(targetNode) })
visitTargets(outgoing, ns, ls, st) ==
    IF outgoing = <<>> \/ st.thrown THEN st
    ELSE LET targetNode == nodesFind(ns, Head(outgoing).targetHandlerId)
         IN visitTargets(Tail(outgoing), ns, ls,
                         IF IsSome(targetNode) THEN visit(The(targetNode), ns, ls, st)
                         ELSE st)

RECURSIVE visitEach(_, _, _, _)
\* list.forEach(node => { if (!visited.has(node.id)) visit(node) }); visit returns at
\* once on a finished node, so the loop over the start nodes is the same loop
visitEach(list, ns, ls, st) ==
    IF list = <<>> \/ st.thrown THEN st
    ELSE visitEach(Tail(list), ns, ls,
                   IF Head(list).id \in st.visited THEN st ELSE visit(Head(list), ns, ls, st))

\* sortNodes(nodes, links): the closure state at the return or at the throw
sortNodes(ns, ls) ==
    LET hasIncoming(node) ==
            \E i \in DOMAIN ls : \E j \in DOMAIN node.handlers :
                node.handlers[j].id = ls[i].targetHandlerId
        withoutIncoming == SelectSeq(ns, LAMBDA node : ~hasIncoming(node))
        startNodes == IF withoutIncoming = <<>> /\ Len(ns) > 0 THEN <<ns[1]>>
                      ELSE withoutIncoming
        started == visitEach(startNodes, ns, ls, SortState(<<>>, {}, {}, FALSE))
    IN visitEach(ns, ns, ls, started)

\* the strategies of the registry after the plugins are loaded
RegisteredStrategies == {"sequential"}
TraverseStrategies == {"sequential", "parallel", ""}

\* the graphs: up to three nodes in any order of the store, each with an output and an
\* input handler, and any set of connections between the handlers of the nodes present
GraphIds == <<"n1", "n2", "n3">>
GraphTypes == <<"start", "task", "end">>
GraphOutputs == <<"o1", "o2", "o3">>
GraphInputs == <<"i1", "i2", "i3">>
GraphLinkIds ==
    << <<"l11", "l12", "l13">>, <<"l21", "l22", "l23">>, <<"l31", "l32", "l33">> >>

GraphNode(i) ==
    Node(GraphIds[i], GraphTypes[i], PositionObject(0, 0, <<0, "graph">>), "", <<>>,
         <<Handler(GraphOutputs[i], "output", "out", Position(1, 0), "right"),
           Handler(GraphInputs[i], "input", "in", Position(0, 0), "left")>>)

GraphLink(i, j) ==
    Connection(GraphLinkIds[i][j], "default", GraphOutputs[i], GraphInputs[j], "bezier", <<>>)

\* the orders in which the store can hold the nodes of a graph
GraphOrders ==
    {order \in UNION {[1..n -> 1..3] : n \in 0..3} :
        \A a \in DOMAIN order : \A b \in DOMAIN order : (a # b) => (order[a] # order[b])}

AllGraphLinks == [k \in 1..9 |-> GraphLink(((k - 1) \div 3) + 1, ((k - 1) % 3) + 1)]

GraphLinks(order, chosen) ==
    SelectSeq(AllGraphLinks, LAMBDA link :
        \E a \in DOMAIN order : \E b \in DOMAIN order :
            /\ <<order[a], order[b]>> \in chosen
            /\ link.id = GraphLinkIds[order[a]][order[b]])

\* the widget of a host that has handed the graph to the store
InitTraverse ==
    /\ \E order \in GraphOrders :
       \E chosen \in SUBSET {<<order[a], order[b]>> : a \in DOMAIN order, b \in DOMAIN order} :
          /\ nodes = [a \in DOMAIN order |-> GraphNode(order[a])]
          /\ links = GraphLinks(order, chosen)
          /\ nodeToLinks = rebuildNodeToLinksCache([a \in DOMAIN order |-> GraphNode(order[a])],
                                                   GraphLinks(order, chosen))
          /\ handlerAbsolutePositions =
                 rebuildHandlerPositionCache([a \in DOMAIN order |-> GraphNode(order[a])])
    /\ notes = <<>>
    /\ transform = [k |-> 1, x |-> 0, y |-> 0]
    /\ selection = None
    /\ InitHistoryManager
    /\ lastCall = Call("new", "void", FALSE, FALSE)
    /\ opCount = 0
    /\ patch = NoPatch
    /\ example = -1

\* a behaviour on the graphs has MaxTraverseOps calls
TraverseBudget == opCount < MaxTraverseOps

\* strategy.sortNodes([...nodes], [...links]) on the copies the store's queries return
sortNodesCall ==
    LET result == sortNodes(nodes, links)
    IN /\ TraverseBudget
       /\ Count(<<"sortNodes", "">>)
       /\ lastCall' = [Call("sortNodes", IF result.thrown THEN "Error" ELSE "value",
                            FALSE, FALSE)
                          EXCEPT !.value = IF result.thrown THEN None
                                           ELSE Some([i \in DOMAIN result.sorted |->
                                                         result.sorted[i].id])]
       /\ UNCHANGED storeVars
       /\ UNCHANGED historyVars
       /\ ObserveOther

\* api.commands.traverseDiagram(payload): every throw inside ends in the catch block
traverseDiagram(strategy) ==
    LET invalid == strategy = ""
        found == strategy \in RegisteredStrategies
        result == sortNodes(nodes, links)
        events == IF invalid THEN <<"TRAVERSE_ERROR">>
                  ELSE IF ~found THEN <<"TRAVERSE_ERROR">>
                  ELSE IF result.thrown THEN <<"TRAVERSE_ERROR">>
                  ELSE <<"TRAVERSE_COMPLETED">>
        code == IF invalid THEN Some("TRAVERSAL_ERROR")
                ELSE IF ~found THEN Some("STRATEGY_NOT_FOUND")
                ELSE IF result.thrown THEN Some("TRAVERSAL_ERROR")
                ELSE None
    IN /\ TraverseBudget
       /\ Count(<<"traverseDiagram", "">>)
       /\ lastCall' = [Call("traverseDiagram", "void", FALSE, FALSE)
                          EXCEPT !.arg = Some(strategy), !.value = code, !.events = events]
       /\ UNCHANGED storeVars
       /\ UNCHANGED historyVars
       /\ ObserveOther

NextTraverse ==
    \/ sortNodesCall
    \/ \E strategy \in TraverseStrategies : traverseDiagram(strategy)

SpecTraverse == InitTraverse /\ [][NextTraverse]_vars

(***************************************************************************)
(* The statements about the history manager.                               *)
(***************************************************************************)

\* C1: after a save, k successful undos followed by k redos bring the store back to the
\* nodes, connections and viewport it had before the first undo, with the undo stack at
\* its depth of then and the redo stack empty
C1_UndoRedoRoundTrip ==
    (run.phase = "redoing" /\ run.r = run.k)
        => /\ StoreView = The(run.view)
           /\ Len(undoStack) = run.depth
           /\ ~canRedo

\* C2: a successful undo leaves in the store the snapshot captured by the save that
\* precedes the one undone
C2_UndoRestoresPrecedingSnapshot ==
    (lastCall.op = "undo" /\ lastCall.ret = "true") => StoreView = timeline[cursor]

\* C3: for snapshots A and B and D = diff(A, B), applyInversePatch(B, D) has the nodes,
\* connections and viewport of A and applyPatch(A, D) has those of B, and so each patch
\* undoes the other
C3_PatchRoundTrip ==
    /\ IsSome(patch.inverse) => View(The(patch.inverse)) = View(The(patch.A))
    /\ IsSome(patch.forward) => View(The(patch.forward)) = View(The(patch.B))
    /\ IsSome(patch.redone) => View(The(patch.redone)) = View(The(patch.B))
    /\ IsSome(patch.undone) => View(The(patch.undone)) = View(The(patch.A))

C3_Witness ==
    /\ IsSome(patch.redone)
    /\ IsSome(patch.undone)
    /\ Len(The(patch.D).nodes) = 2
    /\ The(patch.D).connections # <<>>
    /\ IsSome(The(patch.D).viewport)

\* C4: after more than maxDepth recorded saves, undo succeeds maxDepth times and then
\* returns false, and the store is then in the state of the (n - maxDepth)-th save
C4_DepthLimit ==
    /\ (run.phase = "exhausted" /\ run.n > MaxDepth) => run.k = MaxDepth
    /\ (run.phase = "undoing" /\ run.n > MaxDepth /\ run.k = MaxDepth)
           => StoreView = timeline[1]

\* C5: the undo stack never holds more than maxDepth deltas
C5_UndoStackBounded == Len(undoStack) <= MaxDepth

C5_Witness == run.phase = "saved" /\ run.n > MaxDepth /\ Len(undoStack) = MaxDepth

\* C6: a save whose snapshot has the nodes, connections and viewport of the head leaves
\* the stacks and the head as they are and emits no notification; no delta on a stack is
\* empty
C6_EmptySaveIgnored ==
    /\ [][(lastCall'.op = "save" /\ IsSome(headState) /\ StoreView = View(The(headState)))
             => (UNCHANGED historyVars /\ ~lastCall'.emitted)]_vars
    /\ [](\A d \in {undoStack[i] : i \in DOMAIN undoStack}
                   \cup {redoStack[i] : i \in DOMAIN redoStack} :
             d.nodes # <<>> \/ d.connections # <<>> \/ d.viewport # None)

C6_Witness == lastCall.op = "save" /\ ~lastCall.emitted /\ canUndo

\* C7 as stated: canRedo() is false right after every save()
C7_SaveClearsRedo == lastCall.op = "save" => ~canRedo

\* C7, amended: a save that sets the baseline or records a change leaves the redo stack
\* empty; a save whose diff is empty leaves the redo stack as it is
C7_RecordingSaveClearsRedo ==
    [][lastCall'.op = "save"
          => IF headState = None \/ StoreView # View(The(headState))
             THEN ~canRedo'
             ELSE redoStack' = redoStack]_vars

C7_Witness == lastCall.op = "save" /\ run.cleared > 0 /\ ~canRedo

\* C8: after undos, a save that records a change empties the redo stack, pushes one delta,
\* makes the new snapshot the head and emits the notification; a redo that follows
\* returns false and changes nothing
C8_SaveAfterUndo ==
    /\ [][(lastCall'.op = "save" /\ canRedo /\ StoreView # View(The(headState)))
             => /\ redoStack' = <<>>
                /\ Len(undoStack') = Len(undoStack) + 1
                /\ SubSeq(undoStack', 1, Len(undoStack)) = undoStack
                /\ View(The(headState')) = StoreView
                /\ lastCall'.emitted]_vars
    /\ [][(lastCall.op = "save" /\ run.cleared > 0 /\ lastCall'.op = "redo")
             => /\ lastCall'.ret = "false"
                /\ UNCHANGED <<storeVars, historyVars>>]_vars

C8_Witness ==
    lastCall.op = "redo" /\ lastCall.ret = "false" /\ run.cleared > 0 /\ canUndo

\* C9: the first save after construction or reset makes the snapshot of the store the
\* head and pushes nothing, whatever the store contains
C9_FirstSaveIsBaseline ==
    [][(lastCall'.op = "save" /\ headState = None)
          => /\ IsSome(headState')
             /\ View(The(headState')) = StoreView
             /\ UNCHANGED <<undoStack, redoStack>>
             /\ ~canUndo'
             /\ ~canRedo']_vars

C9_Witness ==
    /\ lastCall.op = "save"
    /\ lastCall.emitted
    /\ Len(timeline) = 1
    /\ nodes # <<>>
    /\ links # <<>>
    /\ ~canUndo

\* C10: undo on an empty undo stack and redo on an empty redo stack return false, call
\* no deserialize, and leave the store, the stacks and the head as they are
C10_NothingToUndoOrRedo ==
    /\ [][(lastCall'.op = "undo" /\ ~canUndo)
             => /\ lastCall'.ret = "false"
                /\ ~lastCall'.deserialized
                /\ UNCHANGED <<storeVars, historyVars>>]_vars
    /\ [][(lastCall'.op = "redo" /\ ~canRedo)
             => /\ lastCall'.ret = "false"
                /\ ~lastCall'.deserialized
                /\ UNCHANGED <<storeVars, historyVars>>]_vars

C10_Witness ==
    lastCall.op = "undo" /\ lastCall.ret = "false" /\ canRedo /\ nodes # <<>>

C12_ExampleUndoRedo ==
    /\ example = 5 => Keys(nodes) = {createNodeId(0)} /\ links = <<>>
    /\ example = 6 =>
           /\ Keys(nodes) = {createNodeId(0), createNodeId(1)}
           /\ Keys(links) = {createConnectionId(2)}

\* C13: removeNode(id) of a node in the store removes the node and exactly the connections
\* that have a source or target handler owned by it: the other connections stay, unchanged
\* and in their order, and getLinksForNode(id) is empty afterwards.
C13_RemoveNodeCascade ==
    [][(lastCall'.op = "removeNode" /\ Keys(nodes') # Keys(nodes)) =>
          LET id == CHOOSE i \in Keys(nodes) \ Keys(nodes') : TRUE
              node == Get(nodes, id)
              owned == {node.handlers[j].id : j \in DOMAIN node.handlers}
              incident(l) == l.sourceHandlerId \in owned \/ l.targetHandlerId \in owned
          IN /\ Keys(nodes') = Keys(nodes) \ {id}
             /\ nodes' = SelectSeq(nodes, LAMBDA n : n.id # id)
             /\ links' = SelectSeq(links, LAMBDA l : ~incident(l))
             /\ getLinksForNode(nodeToLinks', links', id) = <<>>]_vars

\* a removeNode that removed a connection of the node and left another node's connection
C13_Witness ==
    /\ lastCall.op = "removeNode"
    /\ \E i \in DOMAIN lastCall.events : lastCall.events[i] = "CONNECTION_REMOVED"
    /\ links # <<>>
    /\ nodes # <<>>

\* C14: in every state reached through the commands of the facade, the source handler and
\* the target handler of each connection in the store are handlers of nodes in the store.
C14_ConnectionsHaveOwners ==
    \A i \in DOMAIN links :
        /\ handlerExists(links[i].sourceHandlerId, nodes)
        /\ handlerExists(links[i].targetHandlerId, nodes)

\* the facade has made a connection and the store holds it
C14_Witness ==
    /\ lastCall.op = "createLink"
    /\ lastCall.ret = "void"
    /\ \E i \in DOMAIN links : links[i].id = createConnectionId(opCount - 1)
    /\ C14_ConnectionsHaveOwners

\* C15: after any sequence of store commands, getHandlerAbsolutePosition(h) is the position
\* of the owning node plus the offset of the handler for every handler h of a node in the
\* store, and null for every handler id that no node in the store owns.
C15_HandlerPositionsCoherent ==
    \A h \in HandlerIds :
        LET owner == findNodeByHandlerId(nodes, h)
        IN getHandlerAbsolutePosition(handlerAbsolutePositions, h) =
               IF IsSome(owner)
               THEN LET node == The(owner)
                        handler == CHOOSE x \in {node.handlers[j] : j \in DOMAIN node.handlers} :
                                       x.id = h
                    IN Some(Position(node.position.x + handler.offset.x,
                                     node.position.y + handler.offset.y))
               ELSE None

\* right after a moveNode of a node with a handler: the handler is cached at the new place
C15_Witness ==
    /\ lastCall.op = "moveNode"
    /\ lastCall.events # <<>>
    /\ \E i \in DOMAIN nodes :
          /\ nodes[i].position.x = MaxCoord
          /\ nodes[i].handlers # <<>>
          /\ getHandlerAbsolutePosition(handlerAbsolutePositions, nodes[i].handlers[1].id) =
                 Some(Position(MaxCoord + nodes[i].handlers[1].offset.x,
                               nodes[i].handlers[1].offset.y))

\* C16: after any sequence of store commands, setState included, getLinksForNode(n) is the
\* sequence of the connections in the store that have a source or target handler owned by
\* the node n, each of them once and with the field values it has now.
C16_LinksForNodeCoherent ==
    \A n \in NodeIds :
        getLinksForNode(nodeToLinks, links, n) =
            IF HasKey(nodes, n)
            THEN LET node == Get(nodes, n)
                     owned == {node.handlers[j].id : j \in DOMAIN node.handlers}
                 IN SelectSeq(links, LAMBDA l : l.sourceHandlerId \in owned
                                                  \/ l.targetHandlerId \in owned)
            ELSE <<>>

\* a connection with both ends on one node, updated since it was put into the store, is
\* returned for that node
C16_Witness ==
    /\ lastCall.op = "updateLink"
    /\ \E n \in NodeIds :
          LET mine == getLinksForNode(nodeToLinks, links, n)
          IN /\ Len(mine) > 1
             /\ \E i \in DOMAIN mine :
                   /\ mine[i].sourceHandlerId = mine[i].targetHandlerId
                   /\ mine[i].pathType = "straight"

\* C17: no object returned by a store query is shared with the store: when the caller writes
\* to the object it was handed, the collections and both caches stay as they are, so that
\* every later query returns what it would have returned without the write.
C17_ReturnedValuesNotShared ==
    [][lastCall'.op = "callerWrites" =>
          /\ UNCHANGED storeVars
          /\ \A h \in HandlerIds :
                getHandlerAbsolutePosition(handlerAbsolutePositions', h) =
                    getHandlerAbsolutePosition(handlerAbsolutePositions, h)]_vars

\* C18: a store query, a query of api.queries and validateState write nothing and emit
\* nothing: the nodes, connections, notes and viewport, both caches and the history (both
\* stacks and the head) are after the call what they were before it.
C18_QueriesHaveNoEffect ==
    [][lastCall'.op \in {q.op : q \in Queries} =>
          /\ UNCHANGED storeVars
          /\ UNCHANGED historyVars
          /\ lastCall'.events = <<>>
          /\ ~lastCall'.emitted]_vars

\* a getState on a store that holds nodes and connections
C18_Witness ==
    /\ lastCall.op = "getState"
    /\ IsSome(lastCall.value)
    /\ The(lastCall.value).value.nodes # <<>>
    /\ The(lastCall.value).value.links # <<>>
    /\ nodeToLinks # {}

\* C19: removeNode, updateNode, moveNode, removeLink, updateLink, removeNote and updateNote
\* called with an id that is not in the store return normally, leave the collections, the
\* viewport and both caches as they are and emit no notification.
C19_MissingIdIsSilent ==
    [][LET op == lastCall'.op
           missing(collection) == IsSome(lastCall'.arg)
                                      /\ ~HasKey(collection, The(lastCall'.arg))
       IN (\/ op \in {"removeNode", "updateNode", "moveNode"} /\ missing(nodes)
           \/ op \in {"removeLink", "updateLink"} /\ missing(links)
           \/ op \in {"removeNote", "updateNote"} /\ missing(notes))
          => /\ lastCall'.ret = "void"
             /\ lastCall'.events = <<>>
             /\ UNCHANGED storeVars]_vars

\* a moveNode for an id that is not in the store, on a store that holds another node, its
\* handler and a connection
C19_Witness ==
    /\ lastCall.op = "moveNode"
    /\ IsSome(lastCall.arg)
    /\ ~HasKey(nodes, The(lastCall.arg))
    /\ nodes # <<>>
    /\ links # <<>>
    /\ handlerAbsolutePositions # {}

\* C20: api.commands.deleteNode, updateNode, deleteLink, updateLink and deleteNote called
\* with an id that is not in the store return normally and change neither the store nor
\* the history.
C20_FacadeMissingIdIsNoOp ==
    [][LET op == lastCall'.op
           missing(collection) == IsSome(lastCall'.arg)
                                      /\ ~HasKey(collection, The(lastCall'.arg))
       IN (\/ op \in {"deleteNode", "updateNode"} /\ missing(nodes)
           \/ op \in {"deleteLink", "updateLink"} /\ missing(links)
           \/ op = "deleteNote" /\ missing(notes))
          => /\ lastCall'.ret = "void"
             /\ UNCHANGED storeVars
             /\ UNCHANGED historyVars]_vars

(***************************************************************************)
(* C21: addNode, addLink and addNote called with a null or undefined       *)
(* entity throw at once (TypeError), leave the collections and both caches *)
(* of the store unchanged and emit no notification.                        *)
(***************************************************************************)
C21_AddNullThrows ==
    [][(opCount' # opCount /\ lastCall'.op \in AddCommands /\ lastCall'.arg = None)
           => /\ lastCall'.ret = "TypeError"
              /\ lastCall'.events = <<>>
              /\ UNCHANGED storeVars]_vars

\* an add-command has thrown on a store that holds a node with a handler and a connection
C21_Witness ==
    /\ lastCall.op \in AddCommands
    /\ lastCall.ret = "TypeError"
    /\ nodes # <<>>
    /\ links # <<>>
    /\ handlerAbsolutePositions # {}

(***************************************************************************)
(* C22: every store write command that changes the state (add, remove,     *)
(* update and move of a node, add, remove and update of a connection and   *)
(* of a note, setTransform, setState) emits a typed change notification    *)
(* for that change and then RENDER_REQUESTED, in that order; removeNode    *)
(* emits the CONNECTION_REMOVED of every connection it removes before its  *)
(* NODE_REMOVED.                                                           *)
(***************************************************************************)
\* the notification that names the change of a write command; the source has no
\* notification type for a change of the viewport, any type but RENDER_REQUESTED counts
IsChangeNotification(op, event) ==
    CASE op = "addNode" -> event = "NODE_CREATED"
      [] op = "removeNode" -> event = "NODE_REMOVED"
      [] op = "updateNode" -> event = "NODE_UPDATED"
      [] op = "moveNode" -> event = "NODE_MOVED"
      [] op = "addLink" -> event = "CONNECTION_CREATED"
      [] op = "removeLink" -> event = "CONNECTION_REMOVED"
      [] op = "updateLink" -> event = "CONNECTION_UPDATED"
      [] op = "addNote" -> event = "NOTE_CREATED"
      [] op = "removeNote" -> event = "NOTE_REMOVED"
      [] op = "updateNote" -> event = "NOTE_UPDATED"
      [] op = "setState" -> event = "STATE_LOADED"
      [] OTHER -> event # "RENDER_REQUESTED"

WriteCommands ==
    {"addNode", "removeNode", "updateNode", "moveNode", "addLink", "removeLink", "updateLink",
     "addNote", "removeNote", "updateNote", "setTransform", "setState"}

C22_WritesNotifyThenRender ==
    [][(opCount' # opCount /\ lastCall'.op \in WriteCommands
            /\ <<nodes, links, notes, transform>>' # <<nodes, links, notes, transform>>)
           => LET events == lastCall'.events
                  removed == Len(links) - Len(links')
              IN /\ Len(events) >= 2
                 /\ events[Len(events)] = "RENDER_REQUESTED"
                 /\ IsChangeNotification(lastCall'.op, events[Len(events) - 1])
                 /\ lastCall'.op = "removeNode"
                       => /\ Len(events) = 2 * removed + 2
                          /\ \A k \in 1..removed :
                                 /\ events[2 * k - 1] = "CONNECTION_REMOVED"
                                 /\ events[2 * k] = "RENDER_REQUESTED"]_vars

(***************************************************************************)
(* C23: for a graph state S whose node and connection types are all        *)
(* registered and whose connections all refer to handlers of nodes of S,   *)
(* deserialize(serialize(S)) has the same nodes, connections, notes and    *)
(* viewport as S up to ordering, and every handler of every node has the   *)
(* id it has in S.  S is the state of the store.                           *)
(***************************************************************************)
\* a node as a value, without the identity of its position object
RuntimeNodeValue(n) == [n EXCEPT !.position = Position(@.x, @.y)]

C23_SerializeRoundTrip ==
    LET back == deserialize(serialize(nodes, links, notes, transform, "roundtrip"))
    IN (/\ \A i \in DOMAIN nodes : nodes[i].type \in RegisteredNodeTypes
        /\ \A i \in DOMAIN links :
               /\ links[i].type \in RegisteredConnectionTypes
               /\ handlerExists(links[i].sourceHandlerId, nodes)
               /\ handlerExists(links[i].targetHandlerId, nodes))
           => /\ {RuntimeNodeValue(back.nodes[i]) : i \in DOMAIN back.nodes}
                     = {RuntimeNodeValue(nodes[i]) : i \in DOMAIN nodes}
              /\ \A i \in DOMAIN back.nodes :
                     [j \in DOMAIN back.nodes[i].handlers |-> back.nodes[i].handlers[j].id]
                         = [j \in DOMAIN Get(nodes, back.nodes[i].id).handlers |->
                                Get(nodes, back.nodes[i].id).handlers[j].id]
              /\ Values(back.links) = Values(links)
              /\ Values(back.notes) = Values(notes)
              /\ back.transform = transform

(***************************************************************************)
(* C24: the state that deserialize returns for a document contains a       *)
(* connection only if its type is registered and both its sourceHandlerId  *)
(* and its targetHandlerId are ids of handlers of nodes of the returned     *)
(* state; a connection of the document whose source or target handler does *)
(* not exist after the node phase is absent from the result.               *)
(***************************************************************************)
\* some node of ns has a handler with this id
OwnsHandler(ns, handlerId) ==
    \E i \in DOMAIN ns : \E j \in DOMAIN ns[i].handlers : ns[i].handlers[j].id = handlerId

\* the last call was a deserialize that returned a state
Deserialized == lastCall.op = "deserialize" /\ lastCall.ret = "value"

C24_NoOrphanConnections ==
    Deserialized =>
        LET state == The(lastCall.value)
            data == ReadDocument(The(lastCall.arg))
        IN /\ \A i \in DOMAIN state.links :
                  /\ state.links[i].type \in RegisteredConnectionTypes
                  /\ OwnsHandler(state.nodes, state.links[i].sourceHandlerId)
                  /\ OwnsHandler(state.nodes, state.links[i].targetHandlerId)
           /\ \A i \in DOMAIN data.connections :
                  (\/ ~OwnsHandler(state.nodes, data.connections[i].sourceHandlerId)
                   \/ ~OwnsHandler(state.nodes, data.connections[i].targetHandlerId))
                      => ~HasKey(state.links, data.connections[i].id)

\* a document with a node and a connection of a registered type to a handler that no node
\* has: the state came back with the node and without the connection
C24_Witness ==
    /\ Deserialized
    /\ The(lastCall.value).nodes # <<>>
    /\ The(lastCall.value).links = <<>>
    /\ \E i \in DOMAIN ReadDocument(The(lastCall.arg)).connections :
           /\ ReadDocument(The(lastCall.arg)).connections[i].type \in RegisteredConnectionTypes
           /\ ReadDocument(The(lastCall.arg)).connections[i].targetHandlerId = "h9"

(***************************************************************************)
(* C25: a serialized node whose type is not registered is absent from the  *)
(* result of deserialize and raises no exception, and the other nodes of   *)
(* the document, whose types are registered, are loaded.                   *)
(***************************************************************************)
\* a document with its sections, a version and no null entry
Complete(raw) ==
    /\ IsSome(raw.metadata)
    /\ IsSome(The(raw.metadata).version)
    /\ IsSome(raw.nodes)
    /\ NoNull(The(raw.nodes))
    /\ IsSome(raw.connections)
    /\ NoNull(The(raw.connections))
    /\ IsSome(raw.notes) => NoNull(The(raw.notes))

C25_UnknownTypeSkipped ==
    (lastCall.op = "deserialize" /\ Complete(The(lastCall.arg)))
        => /\ lastCall.ret = "value"
           /\ LET state == The(lastCall.value)
                  data == ReadDocument(The(lastCall.arg))
                  known == SelectSeq(data.nodes, LAMBDA d : d.type \in RegisteredNodeTypes)
              IN /\ \A i \in DOMAIN state.nodes : state.nodes[i].type \in RegisteredNodeTypes
                 /\ [i \in DOMAIN state.nodes |-> state.nodes[i].id]
                        = [i \in DOMAIN known |-> known[i].id]

\* a document with a node of an unregistered type ahead of a node of a registered type: the
\* call returned the state with the second node only
C25_Witness ==
    /\ Deserialized
    /\ \E i \in DOMAIN ReadDocument(The(lastCall.arg)).nodes :
           ReadDocument(The(lastCall.arg)).nodes[i].type \notin RegisteredNodeTypes
    /\ Len(The(lastCall.value).nodes) = 1
    /\ The(lastCall.value).nodes[1].id = "n2"

(***************************************************************************)
(* C26: a load that drops entities reports to its caller which ones: after *)
(* deserialize has skipped nodes or connections, the ids of the skipped    *)
(* nodes and of the orphaned connections are part of the outcome of the    *)
(* call.  The outcome is the value that deserialize returns; the graph     *)
(* state itself is its fields nodes, links, notes and transform.           *)
(***************************************************************************)
C26_DropsReported ==
    Deserialized =>
        LET outcome == The(lastCall.value)
            data == ReadDocument(The(lastCall.arg))
            dropped == (Keys(data.nodes) \ Keys(outcome.nodes))
                           \cup (Keys(data.connections) \ Keys(outcome.links))
        IN dropped # {}
              => \E field \in DOMAIN outcome \ {"nodes", "links", "notes", "transform"} :
                    dropped \subseteq outcome[field]

(***************************************************************************)
(* C27: on deserialize of a node, for each handler type the i-th handler   *)
(* of that type in the reconstructed node has the id of the i-th           *)
(* serialized handler of that type in saved order (with two handlers of    *)
(* the type "input" the one saved first regains its id), and no two        *)
(* handlers of the node have the same id.                                  *)
(***************************************************************************)
\* the handlers of one type, in order
OfType(handlers, type) == SelectSeq(handlers, LAMBDA h : h.type = type)

C27_HandlerIdsRestored ==
    Deserialized =>
        LET state == The(lastCall.value)
            data == ReadDocument(The(lastCall.arg))
        IN \A n \in DOMAIN state.nodes :
              LET node == state.nodes[n]
                  saved == Get(data.nodes, node.id).handles
              IN /\ \A type \in {"input", "output"} :
                        \A i \in DOMAIN OfType(node.handlers, type) :
                           i <= Len(OfType(saved, type))
                              => OfType(node.handlers, type)[i].id = OfType(saved, type)[i].id
                 /\ Len(OfType(saved, "input")) = 2
                        => /\ OfType(node.handlers, "input") # <<>>
                           /\ OfType(node.handlers, "input")[1].id
                                  = OfType(saved, "input")[1].id
                 /\ \A i, j \in DOMAIN node.handlers :
                        node.handlers[i].id = node.handlers[j].id => i = j

(***************************************************************************)
(* C28: deserialize raises a hard error if and only if the document lacks  *)
(* metadata, nodes or connections: a document that has the three sections  *)
(* never makes deserialize throw, whatever its nodes, connections and      *)
(* notes are.                                                              *)
(***************************************************************************)
\* metadata, nodes or connections is missing
LacksSection(raw) == ~IsSome(raw.metadata) \/ ~IsSome(raw.nodes) \/ ~IsSome(raw.connections)

C28_HardErrorIffSectionMissing ==
    lastCall.op = "deserialize"
        => (lastCall.ret = "DeserializationError" <=> LacksSection(The(lastCall.arg)))

(***************************************************************************)
(* C29: validateState returns a report {valid, warnings, errors} for every *)
(* document without throwing: valid is false, with an error entry, exactly *)
(* when metadata, nodes or connections is missing; unregistered node or    *)
(* connection types and a major version that does not match add warnings   *)
(* only, valid stays true.                                                 *)
(***************************************************************************)
C29_ValidateStateReports ==
    lastCall.op = "validateState"
        => /\ lastCall.ret = "value"
           /\ LET report == The(lastCall.value)
              IN /\ report.valid <=> ~LacksSection(The(lastCall.arg))
                 /\ report.errors # {} <=> LacksSection(The(lastCall.arg))

(***************************************************************************)
(* C30: updateNode(id, partial) on a node of the store changes only the    *)
(* fields present in partial: label and note are overwritten, style and    *)
(* data are merged key by key over the values the node has; the id, type,  *)
(* position and handlers of the node, every other node, every connection,  *)
(* every note, the viewport and both caches are unchanged.                 *)
(***************************************************************************)
\* the value of key in the free-form map m, if it has the key
Lookup(m, key) ==
    IF \E i \in DOMAIN m : m[i][1] = key
    THEN Some((CHOOSE pair \in {m[i] : i \in DOMAIN m} : pair[1] = key)[2])
    ELSE None

\* after is before with the keys of given set to the values of given
MergedOver(before, given, after) ==
    /\ PairKeys(after) = PairKeys(before) \cup PairKeys(given)
    /\ \A key \in PairKeys(after) :
           Lookup(after, key) = IF key \in PairKeys(given) THEN Lookup(given, key)
                                ELSE Lookup(before, key)

C30_UpdateNodeMergesOnly ==
    [][(opCount' # opCount /\ lastCall'.op = "updateNode" /\ IsSome(lastCall'.input))
           => LET id == The(lastCall'.arg)
                  partial == The(lastCall'.input)
                  before == Get(nodes, id)
                  after == Get(nodes', id)
              IN /\ Len(nodes') = Len(nodes)
                 /\ \A i \in DOMAIN nodes : nodes[i].id # id => nodes'[i] = nodes[i]
                 /\ IndexOf(nodes', id) = IndexOf(nodes, id)
                 /\ after.id = before.id
                 /\ after.type = before.type
                 /\ after.position = before.position
                 /\ after.handlers = before.handlers
                 /\ after.label = IF IsSome(partial.label) THEN The(partial.label)
                                  ELSE before.label
                 /\ after.note = IF IsSome(partial.note) THEN The(partial.note)
                                 ELSE before.note
                 /\ IF IsSome(partial.style)
                    THEN MergedOver(before.style, The(partial.style), after.style)
                    ELSE after.style = before.style
                 /\ IF IsSome(partial.data)
                    THEN MergedOver(before.data, The(partial.data), after.data)
                    ELSE after.data = before.data
                 /\ UNCHANGED <<links, notes, transform, handlerAbsolutePositions,
                                nodeToLinks>>]_vars

\* an updateNode with data {retries, timeout} and a label on a node that had the data
\* {timeout}, with a handler, a connection and another node in the store
C30_Witness ==
    /\ lastCall.op = "updateNode"
    /\ IsSome(lastCall.input)
    /\ IsSome(The(lastCall.input).data)
    /\ PairKeys(The(The(lastCall.input).data)) = {"retries", "timeout"}
    /\ LET node == Get(nodes, The(lastCall.arg))
       IN /\ node.data = << <<"timeout", "1">>, <<"retries", "3">> >>
          /\ node.label = "B"
          /\ node.handlers # <<>>
    /\ Len(nodes) = 2
    /\ links # <<>>

(***************************************************************************)
(* C31: whenever a listener is called with a change notification of a      *)
(* store command (each CONNECTION_REMOVED of the cascade of removeNode and *)
(* STATE_LOADED of setState included), a query it makes finds both caches  *)
(* consistent with the collections at that moment: getLinksForNode and     *)
(* getHandlerAbsolutePosition return what the nodes and connections of the *)
(* store say.                                                              *)
(***************************************************************************)
\* the two cache queries agree with the collections ns and ls
CachesMatch(ns, ls, positions, owners, cached) ==
    /\ \A h \in HandlerIds :
           LET holders == {i \in DOMAIN ns : \E j \in DOMAIN ns[i].handlers :
                                                ns[i].handlers[j].id = h}
           IN IF holders = {}
              THEN getHandlerAbsolutePosition(positions, h) = None
              ELSE \E i \in holders : \E j \in DOMAIN ns[i].handlers :
                      /\ ns[i].handlers[j].id = h
                      /\ getHandlerAbsolutePosition(positions, h)
                             = Some(Position(ns[i].position.x + ns[i].handlers[j].offset.x,
                                             ns[i].position.y + ns[i].handlers[j].offset.y))
    /\ \A n \in NodeIds :
           LET touching == SelectSeq(ls, LAMBDA l :
                               \E i \in DOMAIN ns : \E j \in DOMAIN ns[i].handlers :
                                  /\ ns[i].id = n
                                  /\ ns[i].handlers[j].id \in {l.sourceHandlerId,
                                                               l.targetHandlerId})
           IN getLinksForNode(owners, cached, n) = touching

C31_ListenersSeeFreshCaches ==
    lastCall.op \in WriteCommands
        => /\ \A k \in DOMAIN lastCall.seen :
                  CachesMatch(lastCall.seen[k].nodes, lastCall.seen[k].links,
                              lastCall.seen[k].handlerAbsolutePositions,
                              lastCall.seen[k].nodeToLinks, lastCall.seen[k].cached)
           /\ lastCall.events # <<>>
                  => CachesMatch(nodes, links, handlerAbsolutePositions, nodeToLinks, links)

\* a removeNode whose cascade removed two connections: the listener of the first
\* CONNECTION_REMOVED found the node and the second connection still in the store
C31_Witness ==
    /\ lastCall.op = "removeNode"
    /\ Len(lastCall.seen) = 2
    /\ HasKey(lastCall.seen[1].nodes, The(lastCall.arg))
    /\ Len(lastCall.seen[1].links) = 1
    /\ getLinksForNode(lastCall.seen[1].nodeToLinks, lastCall.seen[1].links,
                       The(lastCall.arg)) # <<>>

(***************************************************************************)
(* C32: after every save(), every undo() that returned true and every      *)
(* redo() that returned true, headState agrees with the store: the store   *)
(* serializes to the nodes, connections and viewport of headState, so a    *)
(* save() right after it would find an empty diff.                         *)
(***************************************************************************)
HistoryMoved ==
    \/ lastCall.op = "save"
    \/ lastCall.op \in {"undo", "redo"} /\ lastCall.ret = "true"

C32_HeadAgreesWithStore ==
    HistoryMoved
        => /\ IsSome(headState)
           /\ View(The(headState)) = StoreView
           /\ isEmptyPatch(diff(The(headState),
                                serialize(nodes, links, notes, transform, "next")))

(***************************************************************************)
(* C33: an undo() or redo() that returns true changes only what the delta  *)
(* it applies records: every node and connection the delta does not name, *)
(* every note, and the viewport when the delta has no viewport entry, is   *)
(* in the store after the call as it was before it.                        *)
(***************************************************************************)
\* the entities of a collection other than the named ones, as values
Unnamed(collection, named) ==
    {collection[i] : i \in {j \in DOMAIN collection : collection[j].id \notin named}}

UnnamedNodes(ns, named) ==
    {RuntimeNodeValue(ns[i]) : i \in {j \in DOMAIN ns : ns[j].id \notin named}}

C33_UndoRedoFrame ==
    [][(lastCall'.op \in {"undo", "redo"} /\ lastCall'.ret = "true")
        => LET delta == IF lastCall'.op = "undo" THEN undoStack[Len(undoStack)]
                        ELSE redoStack[Len(redoStack)]
           IN /\ UnnamedNodes(nodes', Keys(delta.nodes))
                    = UnnamedNodes(nodes, Keys(delta.nodes))
              /\ Unnamed(links', Keys(delta.connections))
                    = Unnamed(links, Keys(delta.connections))
              /\ notes' = notes
              /\ ~IsSome(delta.viewport) => transform' = transform]_vars

(***************************************************************************)
(* C34: each command of the facade that changes the diagram and then calls *)
(* save() adds one entry to the undo stack, and an undo() right after it   *)
(* reverses that command and nothing else: the node or note it created is  *)
(* gone, the one it deleted is back, and the rest of the store is as the   *)
(* command left it.                                                        *)
(***************************************************************************)
SavingCommands ==
    {"createNode", "deleteNode", "updateNode", "createLink", "deleteLink", "updateLink",
     "createNote", "deleteNote"}

\* the call was one of the commands that create or delete, and it returned after writing
\* the store
CreatedOrDeleted(call) ==
    /\ call.op \in {"createNode", "deleteNode", "createLink", "deleteLink", "createNote",
                     "deleteNote"}
    /\ call.ret = "void"
    /\ call.events # <<>>

NodeValues(ns) == [i \in DOMAIN ns |-> RuntimeNodeValue(ns[i])]

ButLast(s) == SubSeq(s, 1, Len(s) - 1)

C34_OneEntryPerCommand ==
    [][/\ (/\ lastCall'.op \in SavingCommands
           /\ lastCall'.ret = "void"
           /\ (NodeValues(nodes') # NodeValues(nodes) \/ links' # links \/ notes' # notes))
          => /\ Len(undoStack') > 0
             /\ undoStack' = evict(Append(undoStack, undoStack'[Len(undoStack')]))
             /\ lastCall'.emitted
       /\ (CreatedOrDeleted(lastCall) /\ lastCall'.op = "undo")
          => /\ lastCall'.ret = "true"
             /\ lastCall.op = "createNote"
                   => notes' = ButLast(notes) /\ NodeValues(nodes') = NodeValues(nodes)
             /\ lastCall.op = "deleteNote"
                   => Len(notes') = Len(notes) + 1 /\ NodeValues(nodes') = NodeValues(nodes)
             /\ lastCall.op = "createNode"
                   => NodeValues(nodes') = ButLast(NodeValues(nodes)) /\ notes' = notes
             /\ lastCall.op = "deleteNode"
                   => Len(nodes') = Len(nodes) + 1 /\ notes' = notes
             /\ lastCall.op \in {"createLink", "deleteLink"}
                   => Keys(nodes') = Keys(nodes) /\ notes' = notes]_vars

(***************************************************************************)
(* C35: whenever the selected node or connection stops being in the store, *)
(* by a removal, a cascade, or a replacement of the whole state through    *)
(* undo(), redo() or importState, the selection is cleared: a selection    *)
(* made through the input layer always refers to an entity of the store.   *)
(***************************************************************************)
C35_SelectionInStore ==
    IsSome(selection)
        => \/ The(selection).type = "node" /\ HasKey(nodes, The(selection).id)
           \/ The(selection).type = "link" /\ HasKey(links, The(selection).id)
           \/ The(selection).type = "note" /\ HasKey(notes, The(selection).id)

(***************************************************************************)
(* C36: every HISTORY_CHANGED notification carries the canUndo() and       *)
(* canRedo() of the history manager at the moment it is emitted, and the   *)
(* payload emitted last equals the manager's current pair: a call that     *)
(* emits none leaves the pair as it was.                                   *)
(***************************************************************************)
C36_HistoryStatusCurrent ==
    [][/\ (IsSome(lastCall'.status)
             => The(lastCall'.status) = [canUndo |-> canUndo', canRedo |-> canRedo'])
       /\ (~IsSome(lastCall'.status)
             => canUndo' = canUndo /\ canRedo' = canRedo)]_vars

(***************************************************************************)
(* C37: a command of the facade that is rejected with a CommandError       *)
(* (createNode and spawnNodeConnected for their payload or an unregistered *)
(* type, createLink for its handlers, updateNode and updateLink for the    *)
(* id) leaves the store, both caches and the history as they were.         *)
(***************************************************************************)
C37_RejectedCommandWritesNothing ==
    [][lastCall'.ret = "CommandError"
        => /\ UNCHANGED <<nodes, links, notes, transform>>
           /\ UNCHANGED <<handlerAbsolutePositions, nodeToLinks>>
           /\ UNCHANGED <<undoStack, redoStack, headState>>]_vars

\* a createNode rejected on a diagram that has a node and an entry to undo
C37_Witness ==
    /\ lastCall.op = "createNode"
    /\ lastCall.ret = "CommandError"
    /\ Len(nodes) > 0
    /\ canUndo

(***************************************************************************)
(* C38: an undo() or redo() that returns false, the injected deserialize   *)
(* callback throwing included, leaves the undo stack, the redo stack and   *)
(* headState as they were before the call.                                 *)
(***************************************************************************)
C38_FailedUndoRedoKeepsHistory ==
    [][(lastCall'.op \in {"undo", "redo"} /\ lastCall'.ret = "false")
        => UNCHANGED <<undoStack, redoStack, headState>>]_vars

(***************************************************************************)
(* The statement about the sequential traversal.                           *)
(***************************************************************************)
OwnerIds(ns, handlerId) ==
    {ns[a].id : a \in {b \in DOMAIN ns : \E j \in DOMAIN ns[b].handlers :
                                            ns[b].handlers[j].id = handlerId}}

\* the pairs (source node, target node) of the connections
GraphEdges(ns, ls) ==
    UNION {OwnerIds(ns, ls[i].sourceHandlerId) \X OwnerIds(ns, ls[i].targetHandlerId) :
              i \in DOMAIN ls}

RECURSIVE PathsWithin(_, _)
\* the pairs joined by a directed path of at most k + 1 connections
PathsWithin(edges, k) ==
    IF k = 0 THEN edges
    ELSE LET shorter == PathsWithin(edges, k - 1)
         IN shorter \cup {<<pq[1][1], pq[2][2]>> :
                              pq \in {x \in shorter \X edges : x[1][2] = x[2][1]}}

HasDirectedCycle(ns, ls) ==
    \E a \in DOMAIN ns : <<ns[a].id, ns[a].id>> \in PathsWithin(GraphEdges(ns, ls), Len(ns))

PlaceIn(order, id) == CHOOSE i \in DOMAIN order : order[i] = id

\* C39: on a graph without a directed cycle sortNodes returns every node exactly once with
\* the source node of each connection before its target node; on a graph with a directed
\* cycle it throws, and traverseDiagram with the sequential strategy then emits
\* TRAVERSE_ERROR and never TRAVERSE_COMPLETED
C39_SequentialSort ==
    /\ (lastCall.op = "sortNodes" /\ ~HasDirectedCycle(nodes, links))
           => /\ lastCall.ret = "value"
              /\ LET order == The(lastCall.value)
                 IN /\ Len(order) = Len(nodes)
                    /\ {order[i] : i \in DOMAIN order} = Keys(nodes)
                    /\ \A e \in GraphEdges(nodes, links) :
                           PlaceIn(order, e[1]) < PlaceIn(order, e[2])
    /\ (lastCall.op = "sortNodes" /\ HasDirectedCycle(nodes, links))
           => lastCall.ret = "Error"
    /\ (lastCall.op = "traverseDiagram" /\ lastCall.arg = Some("sequential")
            /\ HasDirectedCycle(nodes, links))
           => /\ \E i \in DOMAIN lastCall.events : lastCall.events[i] = "TRAVERSE_ERROR"
              /\ \A i \in DOMAIN lastCall.events : lastCall.events[i] # "TRAVERSE_COMPLETED"

\* sortNodes has returned, for three nodes joined by two or more connections, an order
\* that differs from the order of the store
C39_Witness ==
    /\ lastCall.op = "sortNodes"
    /\ lastCall.ret = "value"
    /\ Len(nodes) = 3
    /\ Len(links) >= 2
    /\ The(lastCall.value) # [i \in DOMAIN nodes |-> nodes[i].id]

\* traverseDiagram has reported the error of a graph with a cycle through three nodes
C39_CycleReported ==
    /\ lastCall.op = "traverseDiagram"
    /\ lastCall.arg = Some("sequential")
    /\ lastCall.value = Some("TRAVERSAL_ERROR")
    /\ Len(nodes) = 3
    /\ HasDirectedCycle(nodes, links)
    /\ \A a \in DOMAIN nodes : <<nodes[a].id, nodes[a].id>> \notin GraphEdges(nodes, links)

====
